---- MODULE Spec2Model ----
(***************************************************************************)
(* Model of the catalog normalisation pipeline of magentoProductAssistant. *)
(*                                                                         *)
(*   - SizeAttributeProcessor.process_size                                 *)
(*       (src/src/processors/size_attribute_processor.py)                  *)
(*   - CatalogProcessor.load_mapping / process_catalog /                   *)
(*     process_all_catalogs (src/src/processors/catalog_processor.py)      *)
(*   - ProductContext (src/src/context/product_context.py)                 *)
(*                                                                         *)
(* Python strings are modelled as sequences of one-character strings, so   *)
(* that strip(), upper(), lower(), split() and the regular expressions of  *)
(* the source are computed character by character.                         *)
(***************************************************************************)
EXTENDS Integers, Sequences, FiniteSets, TLC

VARIABLES
    \* ---- process_size called on its own (SpecSize) ----
    sz_pc,        \* "call" before the call, "ret" after it returned
    sz_kind,      \* how product_data carries 'size': "absent", "none", "nan", "str"
    sz_raw,       \* the raw string when sz_kind = "str"
    sz_supplier,  \* the supplier argument
    sz_config,    \* self.config, the loaded supplier_size_mapping.json
    sz_result,    \* the returned dict
    \* ---- the catalog run (Spec) ----
    pc,               \* position of the run
    mapping_table,    \* the Magento mapping csv (input)
    context_table,    \* the context mapping csv (input)
    size_cfg,         \* the size configuration the run loads (input)
    load_ok,          \* "ok", or which configuration file fails to load (input)
    files,            \* the supplier files found, in processing order (input)
    magento_mappings, \* CatalogProcessor.magento_mappings
    file_idx,         \* index of the file being processed
    row_idx,          \* index of the row being processed in that file
    result_data,      \* process_catalog's result_data list
    all_data,         \* process_all_catalogs' all_data, concatenated
    output,           \* the rows written to config.output_file
    written,          \* whether config.output_file was written
    log,              \* the logging calls made, oldest first
    \* ---- an image filename reduction applied twice (SpecImage) ----
    im_pc,        \* "call", "once" after the first application, "twice" after the second
    im_fn,        \* "_strip_image_url" or "extract_filename"
    im_kind,      \* the argument: "none", "nan" or "str"
    im_url,       \* the string when im_kind = "str"
    im_platform,  \* which os.path the interpreter has: "posix" or "nt"
    im_once,      \* the result of the first application
    im_twice,     \* the result of applying the function to im_once
    \* ---- a run of src/catalog_processor.py (SpecRoot) ----
    rt_pc,        \* position of the run
    rt_table,     \* the mapping csv (input)
    rt_load_ok,   \* whether the mapping csv can be read (input)
    rt_folder_ok, \* whether config.catalog_folder can be listed (input)
    rt_entries,   \* the entries of the catalog folder, in listing order (input)
    rt_platform,  \* which os.path the interpreter has
    rt_loaded,    \* magento_fields, default_values, supplier_mappings
    rt_idx,       \* index of the entry being processed
    rt_all,       \* all_data: the frames process_catalog returned
    rt_stats,     \* stats
    rt_output,    \* the rows written to config.output_file
    rt_written,   \* whether config.output_file was written
    rt_log,       \* the run-level logging calls, oldest first
    rt_exc,       \* the exception the run ended with, "" for none
    rt_cache,     \* _descriptive_fields_cache
    rt_scored,    \* per supplier key, how often get_descriptive_fields ran
    \* ---- a call of ProductEnricher.enrich_products (SpecEnrich) ----
    en_pc,        \* position of the call
    en_input,     \* what reading the input csv gives (input)
    en_rows,      \* the rows of the input csv (input)
    en_had,       \* the enriched columns the input csv already fills in (input)
    en_test,      \* test_mode (input)
    en_df,        \* df: the frame being enriched
    en_pos,       \* how many rows of df the loop has visited
    en_file,      \* the rows of the output file on disk
    en_saved,     \* whether the output file has been written
    en_ret,       \* what the call returned
    \* ---- a call of ContentEnricher.process_database (SpecContent) ----
    ce_pc,        \* position of the call
    ce_input,     \* what reading config.output_file gives (input)
    ce_rows,      \* the rows of config.output_file (input)
    ce_prompts,   \* the fields self.prompts has a template for (input)
    ce_df,        \* df: the selected rows under their labels
    ce_pos,       \* the position in df of the row the loop is at
    ce_fld,       \* the position in fields_to_enrich of the field the loop is at
    ce_last,      \* the last generator call: its field, its reply, the cell before and after
    ce_out,       \* config.output_file on disk
    ce_test,      \* the _test.csv file on disk
    ce_exc        \* the exception the call ended with, "" for none

size_vars == <<sz_pc, sz_kind, sz_raw, sz_supplier, sz_config, sz_result>>
run_vars  == <<pc, mapping_table, context_table, size_cfg, load_ok, files,
               magento_mappings, file_idx, row_idx, result_data, all_data, output,
               written, log>>
image_vars == <<im_pc, im_fn, im_kind, im_url, im_platform, im_once, im_twice>>
vars == <<sz_pc, sz_kind, sz_raw, sz_supplier, sz_config, sz_result,
          pc, mapping_table, context_table, size_cfg, load_ok, files,
          magento_mappings, file_idx, row_idx, result_data, all_data, output,
          written, log,
          im_pc, im_fn, im_kind, im_url, im_platform, im_once, im_twice,
          rt_pc, rt_table, rt_load_ok, rt_folder_ok, rt_entries, rt_platform,
          rt_loaded, rt_idx, rt_all, rt_stats, rt_output, rt_written, rt_log, rt_exc,
          rt_cache, rt_scored,
          en_pc, en_input, en_rows, en_test, en_df, en_pos, en_file, en_saved, en_ret,
          en_had,
          ce_pc, ce_input, ce_rows, ce_prompts, ce_df, ce_pos, ce_fld, ce_last, ce_out,
          ce_test, ce_exc>>
enrich_vars == <<en_pc, en_input, en_rows, en_test, en_df, en_pos, en_file, en_saved,
                 en_ret, en_had>>
content_vars == <<ce_pc, ce_input, ce_rows, ce_prompts, ce_df, ce_pos, ce_fld, ce_last,
                  ce_out, ce_test, ce_exc>>
root_vars == <<rt_pc, rt_table, rt_load_ok, rt_folder_ok, rt_entries, rt_platform,
               rt_loaded, rt_idx, rt_all, rt_stats, rt_output, rt_written, rt_log,
               rt_exc, rt_cache, rt_scored>>

\* what the steps of one specification leave alone
not_size_vars == <<run_vars, image_vars, root_vars, enrich_vars, content_vars>>
not_run_vars == <<size_vars, image_vars, root_vars, enrich_vars, content_vars>>
not_image_vars == <<size_vars, run_vars, root_vars, enrich_vars, content_vars>>
not_root_vars == <<size_vars, run_vars, image_vars, enrich_vars, content_vars>>
not_enrich_vars == <<size_vars, run_vars, image_vars, root_vars, content_vars>>
not_content_vars == <<size_vars, run_vars, image_vars, root_vars, enrich_vars>>

(***************************************************************************)
(* Characters and the str methods the source uses                          *)
(***************************************************************************)
LowerChars == <<"a","b","c","d","e","f","g","h","i","j","k","l","m",
                "n","o","p","q","r","s","t","u","v","w","x","y","z">>
UpperChars == <<"A","B","C","D","E","F","G","H","I","J","K","L","M",
                "N","O","P","Q","R","S","T","U","V","W","X","Y","Z">>
Digits == {"0","1","2","3","4","5","6","7","8","9"}
Space  == {" "}
Range(f) == {f[i] : i \in DOMAIN f}
\* every character the inputs of the model are built from ('.' of a regex)
AnyChar == Range(LowerChars) \cup Range(UpperChars) \cup Digits \cup Space
              \cup {"-", "/", "|", "(", ")", ".", "_", ":", "\\"}

UpperChar(c) == IF \E i \in DOMAIN LowerChars : LowerChars[i] = c
                THEN UpperChars[CHOOSE i \in DOMAIN LowerChars : LowerChars[i] = c]
                ELSE c
LowerChar(c) == IF \E i \in DOMAIN UpperChars : UpperChars[i] = c
                THEN LowerChars[CHOOSE i \in DOMAIN UpperChars : UpperChars[i] = c]
                ELSE c
\* str.upper() / str.lower()
StrUpper(s) == [i \in 1..Len(s) |-> UpperChar(s[i])]
StrLower(s) == [i \in 1..Len(s) |-> LowerChar(s[i])]

\* str.strip(): drop leading and trailing whitespace
RECURSIVE LStrip(_)
LStrip(s) == IF s # <<>> /\ Head(s) \in Space THEN LStrip(Tail(s)) ELSE s
RECURSIVE RStrip(_)
RStrip(s) == IF s # <<>> /\ s[Len(s)] \in Space
             THEN RStrip(SubSeq(s, 1, Len(s) - 1)) ELSE s
StrStrip(s) == RStrip(LStrip(s))

\* sub occurs in s at position i
OccursAt(sub, s, i) ==
    /\ i + Len(sub) - 1 <= Len(s)
    /\ \A j \in 1..Len(sub) : s[i + j - 1] = sub[j]
\* Python's  sub in s
StrContains(sub, s) == \E i \in 1..(Len(s) + 1) : OccursAt(sub, s, i)

\* int() of a string of decimal digits
DigitVal(c) == CHOOSE n \in 0..9 : <<"0","1","2","3","4","5","6","7","8","9">>[n + 1] = c
RECURSIVE StrInt(_)
StrInt(s) == IF s = <<>> THEN 0
             ELSE 10 * StrInt(SubSeq(s, 1, Len(s) - 1)) + DigitVal(s[Len(s)])

(***************************************************************************)
(* Regular expressions (the subset of Python's re the source uses).        *)
(* A pattern is [anchS, items, anchE]: '^', a concatenation, '$'.  An item *)
(* is a character class repeated lo..hi times (hi = -1: unbounded), or an  *)
(* alternation of literal strings taken lo..hi times (0..1 or 1..1).       *)
(***************************************************************************)
Cls(cs, lo, hi)  == [t |-> "cls", cs |-> cs, alts |-> {}, lo |-> lo, hi |-> hi]
Alt(alts)        == [t |-> "alt", cs |-> {}, alts |-> alts, lo |-> 1, hi |-> 1]
OptAlt(alts)     == [t |-> "alt", cs |-> {}, alts |-> alts, lo |-> 0, hi |-> 1]
Lit(str)         == Alt({str})
Re(anchS, items, anchE) == [anchS |-> anchS, items |-> items, anchE |-> anchE]

RECURSIVE MatchAt(_, _, _, _, _)
\* items[k..] match s from position i on (up to the end of s when anchE)
MatchAt(items, k, s, i, anchE) ==
    IF k > Len(items) THEN (~anchE \/ i = Len(s) + 1)
    ELSE LET it == items[k] IN
         IF it.t = "cls"
         THEN \E n \in it.lo..(IF it.hi < 0 THEN Len(s) ELSE it.hi) :
                 /\ i + n - 1 <= Len(s)
                 /\ \A j \in i..(i + n - 1) : s[j] \in it.cs
                 /\ MatchAt(items, k + 1, s, i + n, anchE)
         ELSE \/ it.lo = 0 /\ MatchAt(items, k + 1, s, i, anchE)
              \/ \E a \in it.alts :
                    OccursAt(a, s, i) /\ MatchAt(items, k + 1, s, i + Len(a), anchE)

\* re.search(pattern, s) is not None
ReSearch(p, s) ==
    \E i \in (IF p.anchS THEN {1} ELSE 1..(Len(s) + 1)) :
        MatchAt(p.items, 1, s, i, p.anchE)
\* re.match(pattern, s) is not None
ReMatch(p, s) == MatchAt(p.items, 1, s, 1, p.anchE)

\* re.findall(r'\d{2}', s): the non-overlapping two-digit runs, left to right
RECURSIVE FindAll2Digits(_)
FindAll2Digits(s) ==
    IF Len(s) < 2 THEN <<>>
    ELSE IF s[1] \in Digits /\ s[2] \in Digits
         THEN <<SubSeq(s, 1, 2)>> \o FindAll2Digits(SubSeq(s, 3, Len(s)))
         ELSE FindAll2Digits(Tail(s))

\* pieces of patterns
D1plus == Cls(Digits, 1, -1)
S0plus == Cls(Space, 0, -1)
YEARSq == <<Lit(<<"Y","E","A","R">>), Cls({"S"}, 0, 1)>>
CM     == Lit(<<"C","M">>)

(***************************************************************************)
(* SizeAttributeProcessor.__init__: self.size_patterns, in dict order      *)
(***************************************************************************)
LetterSizes == {<<"X","S">>, <<"S">>, <<"M">>, <<"L">>, <<"X","L">>,
                <<"X","X","L">>, <<"2","X","L">>, <<"3","X","L">>}
UniversalSizes == {<<"U","N","I","C","A">>, <<"T","U">>, <<"U">>,
                   <<"U","N","I","V","E","R","S","A","L">>,
                   <<"O","N","E"," ","S","I","Z","E">>}
HatSizes == {<<"5","4">>, <<"5","6">>, <<"5","8">>, <<"6","0">>}
RangeHeads == {<<"S">>, <<"M">>, <<"L">>, <<"X","L">>}

\* variant: the letter sizes pattern without its ^ and $ anchors
AbbigliamentoPatterns_Unanchored == <<
    Re(FALSE, <<Alt(LetterSizes)>>, FALSE),
    Re(TRUE, <<Alt(RangeHeads), Lit(<<"-">>), Cls({"S","M","L"}, 1, 1)>>, TRUE),
    Re(TRUE, <<Alt(RangeHeads), Lit(<<"/">>), Cls({"S","M","L"}, 1, 1)>>, TRUE),
    Re(TRUE, <<Alt(UniversalSizes)>>, TRUE) >>

AbbigliamentoPatterns == <<
    Re(TRUE, <<Alt(LetterSizes)>>, TRUE),
    Re(TRUE, <<Alt(RangeHeads), Lit(<<"-">>), Cls({"S","M","L"}, 1, 1)>>, TRUE),
    Re(TRUE, <<Alt(RangeHeads), Lit(<<"/">>), Cls({"S","M","L"}, 1, 1)>>, TRUE),
    Re(TRUE, <<Alt(UniversalSizes)>>, TRUE) >>

\* variant: the age range pattern (\d+)-(\d+) without its YEARS suffix
BambinoPatterns_BareRange == <<
    Re(FALSE, <<D1plus, S0plus, CM, S0plus, Lit(<<"/">>), S0plus,
                D1plus, Lit(<<"-">>), D1plus, S0plus>> \o YEARSq, FALSE),
    Re(FALSE, <<D1plus, S0plus, CM, S0plus, Lit(<<"/">>), S0plus,
                D1plus, S0plus>> \o YEARSq, FALSE),
    Re(FALSE, <<D1plus, Lit(<<"-">>), D1plus>>, FALSE),
    Re(FALSE, <<D1plus, Lit(<<"/">>), D1plus, S0plus>> \o YEARSq, FALSE),
    Re(FALSE, <<D1plus, S0plus, Lit(<<"Y">>), OptAlt({<<"E","A","R","S">>})>>, FALSE),
    Re(TRUE, <<Cls(Digits, 2, 3), S0plus, CM>>, TRUE),
    Re(TRUE, <<Cls(Digits, 1, 2)>>, TRUE) >>

BambinoPatterns == <<
    Re(FALSE, <<D1plus, S0plus, CM, S0plus, Lit(<<"/">>), S0plus,
                D1plus, Lit(<<"-">>), D1plus, S0plus>> \o YEARSq, FALSE),
    Re(FALSE, <<D1plus, S0plus, CM, S0plus, Lit(<<"/">>), S0plus,
                D1plus, S0plus>> \o YEARSq, FALSE),
    Re(FALSE, <<D1plus, Lit(<<"-">>), D1plus, S0plus>> \o YEARSq, FALSE),
    Re(FALSE, <<D1plus, Lit(<<"/">>), D1plus, S0plus>> \o YEARSq, FALSE),
    Re(FALSE, <<D1plus, S0plus, Lit(<<"Y">>), OptAlt({<<"E","A","R","S">>})>>, FALSE),
    Re(TRUE, <<Cls(Digits, 2, 3), S0plus, CM>>, TRUE),
    Re(TRUE, <<Cls(Digits, 1, 2)>>, TRUE) >>

CalzaturePatterns == <<
    Re(TRUE, <<Cls(Digits, 2, 2), Cls({"-", "/"}, 1, 1), Cls(Digits, 2, 2)>>, TRUE),
    Re(TRUE, <<Cls(Digits, 2, 2)>>, TRUE) >>

CappelliPatterns == <<
    Re(TRUE, <<Alt(HatSizes)>>, TRUE),
    Re(TRUE, <<Alt(HatSizes), S0plus, CM>>, TRUE) >>

\* variant: the cappelli family is tried before the bambino family
size_patterns_CappelliFirst == <<
    [size_set |-> "abbigliamento", patterns |-> AbbigliamentoPatterns],
    [size_set |-> "cappelli",      patterns |-> CappelliPatterns],
    [size_set |-> "bambino",       patterns |-> BambinoPatterns],
    [size_set |-> "calzature",     patterns |-> CalzaturePatterns] >>

size_patterns == <<
    [size_set |-> "abbigliamento", patterns |-> AbbigliamentoPatterns],
    [size_set |-> "bambino",       patterns |-> BambinoPatterns],
    [size_set |-> "calzature",     patterns |-> CalzaturePatterns],
    [size_set |-> "cappelli",      patterns |-> CappelliPatterns] >>

(***************************************************************************)
(* The size configuration (config/supplier_size_mapping.json) as loaded by *)
(* json.load: a dict that may hold the sections                            *)
(*   size_sets           supplier key -> list of (set name, literals),     *)
(*                       in the file's order                               *)
(*   size_type_mapping   set name -> size type                             *)
(*   category_indicators list of (category, indicator words)               *)
(***************************************************************************)
Get(f, k, default) == IF k \in DOMAIN f THEN f[k] ELSE default

\* the size types of the four size sets
SizeTypeMapping ==
    [n \in {"abbigliamento", "bambino", "calzature", "cappelli"} |->
        CASE n = "abbigliamento" -> "clothing"
          [] n = "bambino"       -> "kids"
          [] n = "calzature"     -> "shoes"
          [] n = "cappelli"      -> "accessories"]

(***************************************************************************)
(* SizeAttributeProcessor.process_size                                     *)
(***************************************************************************)
Ret(v, set, type) == [exc |-> "", size |-> v, size_set |-> set, size_type |-> type]
Raise(e)          == [exc |-> e, size |-> <<>>, size_set |-> "", size_type |-> ""]
NoMatch           == <<>>

\* self.config['size_type_mapping'].get(set_name, 'clothing')
ConfiguredType(v, set_name, cfg) ==
    IF "size_type_mapping" \notin cfg.sections THEN Raise("KeyError")
    ELSE Ret(v, set_name, Get(cfg.size_type_mapping, set_name, "clothing"))

s_espa == <<"e","s","p","a">>

\* r'^[XS|S|M|L|XL|2XL|3XL]$' is one character class: X S | M L 2 3
EspaLetterRe == Re(TRUE, <<Cls({"X","S","|","M","L","2","3"}, 1, 1)>>, TRUE)
TwoDigitsRe  == Re(TRUE, <<Cls(Digits, 2, 2)>>, TRUE)
OneTwoDigitsRe == Re(TRUE, <<Cls(Digits, 1, 2)>>, TRUE)

\* variant: no supplier has a pre-pass
EspaPrepass_Off(v, supplier) == NoMatch

\* lines 56-77: the espa pre-pass
EspaPrepass(v, supplier) ==
    IF StrLower(supplier) # s_espa THEN NoMatch
    ELSE IF ReMatch(EspaLetterRe, v) THEN <<Ret(v, "abbigliamento", "clothing")>>
    ELSE IF ReMatch(TwoDigitsRe, v)
         THEN IF 32 <= StrInt(v) /\ StrInt(v) <= 54
              THEN <<Ret(v, "abbigliamento", "clothing")>>
              ELSE IF 2 <= StrInt(v) /\ StrInt(v) <= 16
                   THEN <<Ret(v, "bambino", "kids")>>
                   ELSE NoMatch
         ELSE NoMatch

\* lines 79-87: a bare number 2..16 is a kids size
KidsNumberCheck(v) ==
    IF ReMatch(OneTwoDigitsRe, v) /\ 2 <= StrInt(v) /\ StrInt(v) <= 16
    THEN <<Ret(v, "bambino", "kids")>>
    ELSE NoMatch

\* lines 89-97: exact literals configured for the supplier, first set wins
SupplierExact(v, supplier, cfg) ==
    LET supplier_config ==
            IF "size_sets" \in cfg.sections
            THEN Get(cfg.size_sets, StrLower(supplier), <<>>)
            ELSE <<>>
        hits == {k \in DOMAIN supplier_config :
                    \E lit \in supplier_config[k].sizes : StrUpper(lit) = v}
    IN  IF hits = {} THEN NoMatch
        ELSE LET k == CHOOSE h \in hits : \A o \in hits : h <= o
             IN  <<ConfiguredType(v, supplier_config[k].name, cfg)>>

\* lines 99-107: the pattern families, in order
PatternFamilies(v, cfg) ==
    LET hits == {k \in DOMAIN size_patterns :
                    \E j \in DOMAIN size_patterns[k].patterns :
                        ReSearch(size_patterns[k].patterns[j], v)}
    IN  IF hits = {} THEN NoMatch
        ELSE LET k == CHOOSE h \in hits : \A o \in hits : h <= o
             IN  <<ConfiguredType(v, size_patterns[k].size_set, cfg)>>

\* lines 109-116: category indicator words, as substrings
CategoryIndicators(v, cfg) ==
    IF "category_indicators" \notin cfg.sections THEN <<Raise("KeyError")>>
    ELSE LET ci == cfg.category_indicators
             hits == {k \in DOMAIN ci :
                         \E w \in ci[k].indicators : StrContains(StrUpper(w), v)}
         IN  IF hits = {} THEN NoMatch
             ELSE LET k == CHOOSE h \in hits : \A o \in hits : h <= o
                  IN  <<ConfiguredType(v, ci[k].category, cfg)>>

\* lines 118-135: the last-resort heuristics
CmYearsRe == Re(FALSE, <<D1plus, S0plus, CM, Cls(AnyChar, 0, -1)>> \o YEARSq, FALSE)
\* r'^(\d{2})[-/]?(\d{2})?$': the optional group is taken zero times or once
ShoeRe0 == Re(TRUE, <<Cls(Digits, 2, 2), Cls({"-", "/"}, 0, 1)>>, TRUE)
ShoeRe1 == Re(TRUE, <<Cls(Digits, 2, 2), Cls({"-", "/"}, 0, 1), Cls(Digits, 2, 2)>>, TRUE)
LetterTokens == {<<"S">>, <<"M">>, <<"L">>, <<"X","L">>, <<"2","X","L">>, <<"3","X","L">>}

Heuristics(v) ==
    IF ReSearch(CmYearsRe, v) THEN <<Ret(v, "bambino", "kids")>>
    ELSE IF /\ (ReSearch(ShoeRe0, v) \/ ReSearch(ShoeRe1, v))
            /\ \A k \in DOMAIN FindAll2Digits(v) :
                  35 <= StrInt(FindAll2Digits(v)[k]) /\ StrInt(FindAll2Digits(v)[k]) <= 46
         THEN <<Ret(v, "calzature", "shoes")>>
    ELSE IF \E u \in UniversalSizes : StrContains(u, v)
         THEN <<Ret(v, "abbigliamento", "clothing")>>
    ELSE IF \E u \in LetterTokens : StrContains(u, v)
         THEN <<Ret(v, "abbigliamento", "clothing")>>
    ELSE IF (\E h \in HatSizes : StrContains(h, v)) /\ Len(v) <= 4
         THEN <<Ret(v, "cappelli", "accessories")>>
    ELSE NoMatch

\* the first stage that decides
FirstOf(a, b) == IF a # NoMatch THEN a ELSE b

\* variant: only None/NaN is taken for a missing size, '' is classified
IsEmptySize_MissingOnly(kind, raw) == kind # "str"

\* line 46: not size_value or pd.isna(size_value)
IsEmptySize(kind, raw) == kind # "str" \/ raw = <<>>

\* variant: the value is trimmed but keeps its letter case
Normalize_KeepCase(raw) == StrStrip(raw)

\* line 54: str(size_value).strip().upper()
Normalize(raw) == StrUpper(StrStrip(raw))

\* kind is how product_data.get('size', '') comes out: "absent" (no key),
\* "none" (None), "nan" (a float NaN) or "str" with the string raw
process_size(kind, raw, supplier, cfg) ==
    IF IsEmptySize(kind, raw)
    THEN Ret(<<>>, "", "")
    ELSE LET v == Normalize(raw) IN
         Head(FirstOf(EspaPrepass(v, supplier),
              FirstOf(KidsNumberCheck(v),
              FirstOf(SupplierExact(v, supplier, cfg),
              FirstOf(PatternFamilies(v, cfg),
              FirstOf(CategoryIndicators(v, cfg),
              FirstOf(Heuristics(v),
                      <<Ret(v, "abbigliamento", "clothing")>>)))))))

(***************************************************************************)
(* Inputs of process_size                                                  *)
(***************************************************************************)
MaxShortLen == 2

s_ESPA    == <<"E","S","P","A">>
s_guirca  == <<"g","u","i","r","c","a">>
s_Guirca  == <<"G","u","i","r","c","a">>
s_widmann == <<"w","i","d","m","a","n","n">>
s_acme    == <<"a","c","m","e">>

\* every string of length n over the characters cs
RECURSIVE StringsOfLen(_, _)
StringsOfLen(cs, n) ==
    IF n = 0 THEN {<<>>}
    ELSE {<<c>> \o t : c \in cs, t \in StringsOfLen(cs, n - 1)}
StringsUpTo(cs, n) == UNION {StringsOfLen(cs, k) : k \in 0..n}

\* every spelling of u in upper and lower case
RECURSIVE CaseVariants(_)
CaseVariants(u) ==
    IF u = <<>> THEN {<<>>}
    ELSE {<<c>> \o t : c \in {UpperChar(Head(u)), LowerChar(Head(u))},
                       t \in CaseVariants(Tail(u))}

ShortChars == {"S", "M", "X", "l", "U", "Y", "2", "5", "|", " ", "-", "("}
PairDigits == {"1", "3", "4", "7"}
DigitPairs == {<<a, b, sep, c, d>> : a \in PairDigits, b \in PairDigits,
                  sep \in {"-", "/"}, c \in PairDigits, d \in PairDigits}
NamedSizes == {
    <<"1","1","0"," ","C","M"," ","/"," ","3","-","4"," ","Y","E","A","R","S">>,
    <<"1","1","0"," ","C","M"," ","/"," ","3"," ","Y","E","A","R">>,
    <<"1","1","0","c","m","/","3","-","4","y","e","a","r","s">>,
    <<"3","-","4"," ","Y","E","A","R","S">>, <<"3","/","4"," ","y","e","a","r","s">>,
    <<"3","Y">>, <<"1","1","0"," ","C","M">>, <<"6","0"," ","C","M">>,
    <<"1","1","0"," ","C","M"," ","A","G","E">>,
    <<"T","U">>, <<"u","n","i","c","a">>, <<"O","N","E"," ","S","I","Z","E">>,
    <<"U","N","I","V","E","R","S","A","L">>, <<"T","U","T","U">>,
    <<"S","-","M">>, <<"M","/","L">>, <<"X","L","-","X">>,
    <<"(","X","L",")">>, <<" ","M"," ">>, <<" "," ">>, <<"x","l"," ">>,
    <<"B","A","B","Y">>, <<"k","i","d"," ","h","a","t">>, <<"H","A","T">>,
    <<"3","6","-","3","7">>, <<"3","6","/","3","7">>, <<"3","6","-">>,
    <<"1","0","-","2","0">>, <<"4","6","-","4","7">>, <<"3","6","3","7">>,
    <<"5","4","0">>, <<"0","5","4","0">>, <<"9","9","9">>, <<"_">>, <<".",".">>,
    <<"3","6","-","3","7"," ">>, <<"x","x","l">>,
    <<"5","4"," ","C","M">>, <<"5","8","c","m">>, <<" ","4","2"," ">>, <<"(","4","2",")">> }

\* combined centimetre / age sizes "<n> CM / <a>-<b> YEARS", upper and lower case
s_110cm34 == <<"1","1","0"," ","C","M"," ","/"," ","3","-","4"," ","Y","E","A","R","S">>
CmAgeSizes ==
    {n \o <<" ","C","M"," ","/"," ">> \o a \o <<"-">> \o b \o <<" ","Y","E","A","R","S">> :
        n \in {<<"5">>, <<"9","0">>, <<"1","1","0">>},
        a \in {<<"3">>, <<"4">>, <<"1","0">>}, b \in {<<"4">>, <<"1","2">>}}

SizeInputs ==
    StringsUpTo(ShortChars, MaxShortLen)
      \cup CmAgeSizes \cup {StrLower(x) : x \in CmAgeSizes}
      \cup StringsUpTo(Digits, 2)
      \cup UNION {CaseVariants(u) : u \in LetterSizes}
      \cup DigitPairs
      \cup NamedSizes

SizeSuppliers == {s_espa, s_ESPA, s_guirca, s_widmann}

\* size_sets sections: none configured, and literals that other rules also match
SizeSetsChoices == {
    <<>>,
    [k \in {s_guirca, s_espa} |->
        IF k = s_guirca
        THEN << [name |-> "abbigliamento",
                 sizes |-> {<<"T","U">>, <<"S">>, <<"x","l">>, <<"1","2">>}],
                [name |-> "cappelli", sizes |-> {<<"5","8">>, <<"T","U">>}] >>
        ELSE << [name |-> "calzature",
                 sizes |-> {<<"4","2">>, <<"3","6","-","3","7">>, <<"M">>}] >>],
    [k \in {s_guirca, s_widmann} |->
        IF k = s_guirca
        THEN << [name |-> "calzature", sizes |-> {<<"3","6">>, <<"9","9","9">>}],
                [name |-> "maschere", sizes |-> {<<"U">>, <<"4","7","-","1","1">>}] >>
        ELSE << [name |-> "cappelli",
                 sizes |-> {<<"X","L">>, <<"5">>, <<"3","Y">>, <<" ","M">>, s_110cm34}] >>] }

IndicatorChoices == {
    <<>>,
    << [category |-> "bambino", indicators |-> {<<"B","A","B","Y">>, <<"k","i","d">>}],
       [category |-> "cappelli", indicators |-> {<<"H","A","T">>}] >> }

AllSections == {"size_sets", "size_type_mapping", "category_indicators"}
SizeConfigs ==
    {[sections |-> AllSections, size_sets |-> ss,
      size_type_mapping |-> SizeTypeMapping, category_indicators |-> ci] :
        ss \in SizeSetsChoices, ci \in IndicatorChoices}

(***************************************************************************)
(* SpecSize: process_size called once on an arbitrary input                *)
(***************************************************************************)
ImageIdle ==
    /\ im_pc = "idle" /\ im_fn = "" /\ im_kind = "none" /\ im_url = <<>>
    /\ im_platform = "posix" /\ im_once = <<>> /\ im_twice = <<>>
ContentNoCall ==
    [called |-> FALSE, field |-> "", reply |-> [ok |-> FALSE, text |-> <<>>],
     before |-> <<>>, after |-> <<>>]
ContentIdle ==
    /\ ce_pc = "idle" /\ ce_input = "ok" /\ ce_rows = <<>> /\ ce_prompts = {}
    /\ ce_df = <<>> /\ ce_pos = 0 /\ ce_fld = 0 /\ ce_last = ContentNoCall
    /\ ce_out = <<>> /\ ce_test = <<>> /\ ce_exc = ""
EnrichIdle ==
    /\ en_pc = "idle" /\ en_input = "ok" /\ en_rows = <<>> /\ en_test = FALSE /\ en_had = {}
    /\ en_df = <<>> /\ en_pos = 0 /\ en_file = <<>> /\ en_saved = FALSE
    /\ en_ret = "none"
RootIdle ==
    /\ rt_pc = "idle" /\ rt_table = <<>> /\ rt_load_ok = TRUE /\ rt_folder_ok = TRUE
    /\ rt_entries = <<>> /\ rt_platform = "posix" /\ rt_loaded = <<>> /\ rt_idx = 0
    /\ rt_all = <<>> /\ rt_stats = <<>> /\ rt_output = <<>> /\ rt_written = FALSE
    /\ rt_log = <<>> /\ rt_exc = "" /\ rt_cache = <<>> /\ rt_scored = <<>>
SizeIdle ==
    /\ sz_pc = "idle" /\ sz_kind = "absent" /\ sz_raw = <<>>
    /\ sz_supplier = <<>> /\ sz_config = <<>>
    /\ sz_result = [exc |-> "", size |-> <<>>, size_set |-> "", size_type |-> ""]

RunIdle ==
    /\ pc = "idle" /\ mapping_table = <<>> /\ context_table = <<>>
    /\ size_cfg = <<>> /\ load_ok = "ok" /\ files = <<>> /\ magento_mappings = <<>>
    /\ file_idx = 0 /\ row_idx = 0 /\ result_data = <<>>
    /\ all_data = <<>> /\ output = <<>> /\ written = FALSE /\ log = <<>>

InitSize ==
    /\ sz_pc = "call"
    /\ sz_kind \in {"absent", "none", "nan", "str"}
    /\ sz_raw \in (IF sz_kind = "str" THEN SizeInputs ELSE {<<>>})
    /\ sz_supplier \in SizeSuppliers
    /\ sz_config \in SizeConfigs
    /\ sz_result = Ret(<<>>, "", "")
    /\ RunIdle
    /\ ImageIdle
    /\ RootIdle
    /\ EnrichIdle
    /\ ContentIdle

CallProcessSize ==
    /\ sz_pc = "call"
    /\ sz_result' = process_size(sz_kind, sz_raw, sz_supplier, sz_config)
    /\ sz_pc' = "ret"
    /\ UNCHANGED <<sz_kind, sz_raw, sz_supplier, sz_config>>
    /\ UNCHANGED not_size_vars

NextSize == CallProcessSize
SpecSize == InitSize /\ [][NextSize]_vars

(***************************************************************************)
(* Python dicts (functions on their key set) and str.split                 *)
(***************************************************************************)
EmptyDict == <<>>
Put(d, k, v) == [x \in (DOMAIN d) \cup {k} |-> IF x = k THEN v ELSE d[x]]
\* dict.update(other)
Update(d, o) == [x \in (DOMAIN d) \cup (DOMAIN o) |-> IF x \in DOMAIN o THEN o[x] ELSE d[x]]

\* s.split(sep) for a one-character sep
RECURSIVE SplitAcc(_, _, _)
SplitAcc(s, sep, cur) ==
    IF s = <<>> THEN <<cur>>
    ELSE IF Head(s) = sep THEN <<cur>> \o SplitAcc(Tail(s), sep, <<>>)
         ELSE SplitAcc(Tail(s), sep, Append(cur, Head(s)))
StrSplit(s, sep) == SplitAcc(s, sep, <<>>)
\* s.replace(a, b) for one-character a, b
StrReplace(s, a, b) == [i \in 1..Len(s) |-> IF s[i] = a THEN b ELSE s[i]]

\* the least element of a non-empty set of integers
Least(S) == CHOOSE x \in S : \A y \in S : x <= y

(***************************************************************************)
(* CatalogProcessor.load_mapping                                           *)
(* The Magento mapping csv is [columns, rows]: columns are the supplier    *)
(* column headers, a row is [magento_field, cells] with one cell per       *)
(* column; an empty csv cell (NaN) is the empty string.                    *)
(***************************************************************************)
NaN == <<>>
KnownSuppliers == {s_guirca, s_widmann, s_espa}

\* the mapping list of one supplier column: magento_field -> supplier columns,
\* fields in first-appearance order, columns in row order
RECURSIVE ColumnMapping(_, _, _)
ColumnMapping(rows, ci, acc) ==
    IF rows = <<>> THEN acc
    ELSE LET r == Head(rows)
             at == {k \in DOMAIN acc : acc[k].field = r.magento_field}
             next == IF r.cells[ci] = NaN THEN acc
                     ELSE IF at = {}
                          THEN Append(acc, [field |-> r.magento_field, cols |-> <<r.cells[ci]>>])
                          ELSE [acc EXCEPT ![Least(at)].cols = Append(@, r.cells[ci])]
         IN  ColumnMapping(Tail(rows), ci, next)

\* line 115: only the columns named guirca, widmann or espa are suppliers
SupplierColumns(table) ==
    {ci \in DOMAIN table.columns : StrLower(table.columns[ci]) \in KnownSuppliers}

\* lines 117-128: a later column with the same lower-cased name starts over
load_mapping(table) ==
    LET cis == SupplierColumns(table)
        keys == {StrLower(table.columns[ci]) : ci \in cis}
        last(k) == CHOOSE ci \in cis :
                      /\ StrLower(table.columns[ci]) = k
                      /\ \A cj \in cis : StrLower(table.columns[cj]) = k => cj <= ci
    IN  [k \in keys |-> ColumnMapping(table.rows, last(k), <<>>)]

\* mapping.get(field, [])
MappedColumns(mapping, field) ==
    LET at == {k \in DOMAIN mapping : mapping[k].field = field}
    IN  IF at = {} THEN <<>> ELSE mapping[Least(at)].cols

(***************************************************************************)
(* ProductContext (src/src/context/product_context.py)                     *)
(* The context csv is a list of [supplier, supplier_field, context_type].  *)
(* The context string "type:value | type:value" is kept as the list of     *)
(* its (type, value) pairs; the empty string is the empty list.            *)
(***************************************************************************)
s_nan == <<"n","a","n">>

\* _clean_value of a cell holding a string: None is the empty string here
clean_value(value) ==
    LET str_value == StrStrip(value)
    IN  IF str_value # <<>> /\ StrLower(str_value) # s_nan THEN str_value ELSE <<>>

\* load_mapping: the entries whose supplier equals the name exactly
context_field_mappings(ctx_table, supplier) ==
    SelectSeq(ctx_table, LAMBDA e : e.supplier = supplier)

\* get_context over the row with its keys upper-cased
RECURSIVE ContextPairs(_, _)
ContextPairs(mappings, row) ==
    IF mappings = <<>> THEN <<>>
    ELSE LET m == Head(mappings)
             keys == {h \in DOMAIN row : StrUpper(h) = StrUpper(m.supplier_field)}
             value == IF keys = {} THEN <<>> ELSE clean_value(row[CHOOSE h \in keys : TRUE])
         IN  (IF value # <<>> THEN <<[type |-> m.context_type, value |-> value]>> ELSE <<>>)
                \o ContextPairs(Tail(mappings), row)

\* ProductContext(...) then get_context(): the context, or the exception
\* raised by the constructor (the csv is read again for every row)
product_context(row, supplier, ctx_table, io_fault) ==
    IF io_fault THEN [exc |-> "OSError", context |-> <<>>]
    ELSE IF context_field_mappings(ctx_table, supplier) = <<>>
         THEN [exc |-> "ValueError", context |-> <<>>]
         ELSE [exc |-> "",
               context |-> ContextPairs(context_field_mappings(ctx_table, supplier), row)]

(***************************************************************************)
(* CatalogProcessor._strip_image_url and _process_images                   *)
(***************************************************************************)
_strip_image_url(image_path) ==
    IF image_path = <<>> THEN <<>>
    ELSE LET parts == StrSplit(StrReplace(image_path, "\\", "/"), "/")
         IN  parts[Len(parts)]

\* ','.join(images)
RECURSIVE JoinComma(_)
JoinComma(parts) ==
    IF parts = <<>> THEN <<>>
    ELSE IF Len(parts) = 1 THEN parts[1]
         ELSE parts[1] \o <<",">> \o JoinComma(Tail(parts))

RECURSIVE AdditionalImages(_, _)
AdditionalImages(cols, row) ==
    IF cols = <<>> THEN <<>>
    ELSE (IF Head(cols) \in DOMAIN row /\ _strip_image_url(row[Head(cols)]) # <<>>
          THEN <<_strip_image_url(row[Head(cols)])>> ELSE <<>>)
            \o AdditionalImages(Tail(cols), row)

SingleImageFields == <<"base_image", "small_image", "thumbnail_image">>
image_fields == {"base_image", "small_image", "thumbnail_image", "additional_images"}

\* the first mapped column present in the row, or <<>>
FirstPresent(cols, row) ==
    LET at == {k \in DOMAIN cols : cols[k] \in DOMAIN row}
    IN  IF at = {} THEN <<>> ELSE <<cols[Least(at)]>>

RECURSIVE SingleImages(_, _, _, _)
SingleImages(fields, row, magento_row, mapping) ==
    IF fields = <<>> THEN magento_row
    ELSE LET fp == FirstPresent(MappedColumns(mapping, Head(fields)), row)
         IN  SingleImages(Tail(fields), row,
                 IF fp = <<>> THEN magento_row
                 ELSE Put(magento_row, Head(fields), _strip_image_url(row[fp[1]])),
                 mapping)

_process_images(row, magento_row, mapping) ==
    Put(SingleImages(SingleImageFields, row, magento_row, mapping),
        "additional_images",
        JoinComma(AdditionalImages(MappedColumns(mapping, "additional_images"), row)))

(***************************************************************************)
(* CatalogProcessor.process_catalog, lines 257-364: one row                *)
(* A source row is a function from the file's headers to strings (after    *)
(* fillna('') every cell is a string); the emitted row is a dict.          *)
(***************************************************************************)
c_ColorSize == <<"C","o","l","o","r","-","S","i","z","e">>
c_Division  == <<"D","i","v","i","s","i","o","n">>

\* lines 312-321: category_mapping.get(division, 'default')
DivisionCategory(division) ==
    CASE division = <<"a","c","c","e","s","s","o","r","i","e","s">> -> "accessories"
      [] division = <<"b","a","s","i","c">> -> "basic_wear"
      [] division = <<"b","e","a","c","h","w","e","a","r">> -> "beachwear"
      [] division = <<"s","p","o","r","t","s","w","e","a","r">> -> "sportswear"
      [] division = <<"u","n","d","e","r","w","e","a","r">> -> "underwear"
      [] OTHER -> "default"

\* lines 275-281: the first sku column present in the row decides
ResolveSku(row, mapping) ==
    LET fp == FirstPresent(MappedColumns(mapping, "sku"), row)
    IN  IF fp = <<>> THEN <<>> ELSE StrStrip(row[fp[1]])

\* lines 290-305: the supplier columns of one magento field, in order
RECURSIVE FieldLoop(_, _, _, _, _)
FieldLoop(cols, magento_field, row, magento_row, supplier_key) ==
    IF cols = <<>> THEN magento_row
    ELSE LET field == Head(cols) IN
         IF field \notin DOMAIN row
         THEN FieldLoop(Tail(cols), magento_field, row, magento_row, supplier_key)
         ELSE IF supplier_key = s_espa /\ field = c_ColorSize
              THEN LET color_size == StrStrip(row[field])
                       parts == StrSplit(color_size, "-")
                       set == IF Len(parts) < 2 THEN magento_row
                              ELSE IF magento_field = "size"
                                   THEN Put(magento_row, "size", StrStrip(parts[1]))
                                   ELSE IF magento_field = "color"
                                        THEN Put(magento_row, "color", StrStrip(parts[2]))
                                        ELSE magento_row
                   IN  FieldLoop(Tail(cols), magento_field, row, set, supplier_key)
              ELSE Put(magento_row, magento_field, StrStrip(row[field]))

\* lines 288-305: every mapped field but sku and the image fields
RECURSIVE RegularFields(_, _, _, _)
RegularFields(entries, row, magento_row, supplier_key) ==
    IF entries = <<>> THEN magento_row
    ELSE LET e == Head(entries)
         IN  RegularFields(Tail(entries), row,
                 IF e.field \in image_fields \/ e.field = "sku" THEN magento_row
                 ELSE FieldLoop(e.cols, e.field, row, magento_row, supplier_key),
                 supplier_key)

\* the dict process_size returns
SizeInfo(r) == [k \in {"size", "size_set", "size_type"} |->
                   IF k = "size" THEN r.size
                   ELSE IF k = "size_set" THEN r.size_set ELSE r.size_type]

\* lines 307-347: classify the size; [exc, row]
SizeStep(headers, row, magento_row, supplier_name, cfg) ==
    IF StrLower(supplier_name) = s_espa
    THEN LET division == StrLower(StrStrip(IF c_Division \in DOMAIN row
                                            THEN row[c_Division] ELSE <<>>))
             with_cat == Put(magento_row, "categories", DivisionCategory(division))
             at == {k \in DOMAIN headers : StrContains(c_ColorSize, headers[k])}
             parts == IF at = {} THEN <<>>
                      ELSE StrSplit(StrStrip(row[headers[Least(at)]]), "-")
         IN  IF Len(parts) < 2 THEN [exc |-> "", row |-> with_cat]
             ELSE LET r == process_size("str", StrStrip(parts[1]), supplier_name, cfg)
                      set == Put(Put(with_cat, "size", StrStrip(parts[1])),
                                 "color", StrStrip(parts[2]))
                  IN  IF r.exc # "" THEN [exc |-> r.exc, row |-> set]
                      ELSE [exc |-> "", row |-> Update(set, SizeInfo(r))]
    ELSE IF "size" \in DOMAIN magento_row
         THEN LET r == process_size("str", magento_row["size"], supplier_name, cfg)
              IN  IF r.exc # "" THEN [exc |-> r.exc, row |-> magento_row]
                  ELSE [exc |-> "", row |-> Update(magento_row, SizeInfo(r))]
         ELSE [exc |-> "", row |-> magento_row]

\* lines 349-355
EnsureSize(magento_row) ==
    IF "size" \in DOMAIN magento_row THEN magento_row
    ELSE Update(magento_row,
                [k \in {"size", "size_set", "size_type"} |->
                    IF k = "size" THEN <<>> ELSE "default"])

\* lines 259-364, the body of the row loop: what becomes of one source row.
\* status "ok": magento_row is appended; "skip": no sku (line 283);
\* "error": an exception reached the handler of line 362
TransformRow(headers, row, supplier_name, mapping, ctx_table, cfg, io_fault) ==
    LET supplier_key == StrLower(supplier_name)
        ctx == product_context(row, supplier_name, ctx_table, io_fault)
        sku == ResolveSku(row, mapping)
        m0 == Put(Put([k \in {"supplier"} |-> supplier_name],
                      "product_context", ctx.context), "sku", sku)
        m1 == RegularFields(mapping, row, m0, supplier_key)
        sized == SizeStep(headers, row, m1, supplier_name, cfg)
    IN  IF ctx.exc # "" THEN [status |-> "error", exc |-> ctx.exc, row |-> EmptyDict]
        ELSE IF sku = <<>> THEN [status |-> "skip", exc |-> "", row |-> EmptyDict]
        ELSE IF sized.exc # "" THEN [status |-> "error", exc |-> sized.exc, row |-> EmptyDict]
        ELSE [status |-> "ok", exc |-> "",
              row |-> _process_images(row, EnsureSize(sized.row), mapping)]

\* pd.DataFrame(result_data).columns: a column for every key of any row
Columns(rows) == UNION {DOMAIN rows[i] : i \in DOMAIN rows}

\* pd.concat(all_data, ignore_index=True)
RECURSIVE Concat(_)
Concat(frames) == IF frames = <<>> THEN <<>> ELSE Head(frames) \o Concat(Tail(frames))

\* final_df.drop_duplicates(subset=['sku'], keep='first')
RECURSIVE DropDuplicatesAcc(_, _)
DropDuplicatesAcc(rows, seen) ==
    IF rows = <<>> THEN <<>>
    ELSE IF Head(rows)["sku"] \in seen
         THEN DropDuplicatesAcc(Tail(rows), seen)
         ELSE <<Head(rows)>> \o DropDuplicatesAcc(Tail(rows), seen \cup {Head(rows)["sku"]})

\* variant: keep='last'
RECURSIVE KeepLastAcc(_)
KeepLastAcc(rows) ==
    IF rows = <<>> THEN <<>>
    ELSE IF \E j \in 2..Len(rows) : rows[j]["sku"] = Head(rows)["sku"]
         THEN KeepLastAcc(Tail(rows))
         ELSE <<Head(rows)>> \o KeepLastAcc(Tail(rows))
drop_duplicates_keep_last(rows) == KeepLastAcc(rows)

drop_duplicates(rows) == DropDuplicatesAcc(rows, {})

LogEntry(level, event, f, r) == [level |-> level, event |-> event, file |-> f, row |-> r]

(***************************************************************************)
(* Inputs of a catalog run                                                 *)
(***************************************************************************)
MaxRows == 3
MaxFiles == 2

c_CODE   == <<"C","O","D","E">>
c_EAN    == <<"E","A","N">>
c_TAGLIA == <<"T","A","G","L","I","A">>
c_DESC   == <<"D","E","S","C">>
c_IMG    == <<"I","M","G">>
c_Code   == <<"C","o","d","e">>
c_Size   == <<"S","i","z","e">>

v_P001 == <<"P","0","0","1">>
v_P002 == <<"P","0","0","2">>
v_P003 == <<"P","0","0","3">>
v_M    == <<"M">>
v_hat  == <<"h","a","t">>
v_img  == <<"u",":","/","i","\\","a",".","j","p","g">>

\* the Magento mapping csv: supplier columns guirca, ESPA, acme, widmann
MappingTable ==
    [columns |-> <<s_guirca, s_ESPA, s_acme, s_widmann>>,
     rows |-> <<
        [magento_field |-> "sku",   cells |-> <<c_CODE, c_Code, c_CODE, c_CODE>>],
        [magento_field |-> "sku",   cells |-> <<c_EAN, NaN, NaN, NaN>>],
        [magento_field |-> "size",  cells |-> <<c_TAGLIA, c_ColorSize, c_TAGLIA, c_TAGLIA>>],
        [magento_field |-> "size",  cells |-> <<NaN, c_Size, NaN, NaN>>],
        [magento_field |-> "color", cells |-> <<NaN, c_ColorSize, NaN, NaN>>],
        [magento_field |-> "name",  cells |-> <<c_DESC, NaN, c_DESC, NaN>>],
        [magento_field |-> "base_image", cells |-> <<c_IMG, NaN, NaN, NaN>>],
        [magento_field |-> "additional_images", cells |-> <<c_IMG, NaN, NaN, NaN>> ] >>]

\* the context mapping csv: widmann has no entry
ContextTable == <<
    [supplier |-> s_guirca, supplier_field |-> <<"d","e","s","c">>, context_type |-> "description"],
    [supplier |-> s_espa,   supplier_field |-> c_Division, context_type |-> "category"],
    [supplier |-> s_acme,   supplier_field |-> c_DESC, context_type |-> "description"] >>

Row(headers, values) ==
    [h \in Range(headers) |-> values[CHOOSE k \in DOMAIN headers : headers[k] = h]]

\* sequences of at most n elements of S
RECURSIVE SeqsOfLen(_, _)
SeqsOfLen(S, n) ==
    IF n = 0 THEN {<<>>} ELSE {<<x>> \o t : x \in S, t \in SeqsOfLen(S, n - 1)}
SeqsUpTo(S, n) == UNION {SeqsOfLen(S, k) : k \in 0..n}

h_guirca == <<c_CODE, c_TAGLIA, c_DESC, c_IMG>>
h_espa1  == <<c_Code, c_Size>>
h_espa2  == <<c_Code, c_ColorSize, c_Division>>
h_espa3  == <<c_Code, c_Size, c_ColorSize>>
h_plain  == <<c_CODE, c_TAGLIA, c_DESC>>
h_acme   == <<c_CODE, c_TAGLIA>>
h_guirca_ean == <<c_CODE, c_EAN, c_TAGLIA>>

GuircaRows == {
    Row(h_guirca, <<v_P001, v_M, v_hat, v_img>>),
    Row(h_guirca, <<v_P002, <<"3","6","-","3","7">>, v_hat, v_img>>),
    Row(h_guirca, <<<<>>, v_M, v_hat, v_img>>),
    Row(h_guirca, <<v_P003, <<" ","x","l">>, <<>>, <<>>>>),
    Row(h_guirca, <<<<" ","P","0","0","1">>, <<"5">>, v_hat, <<"a",".","p","n","g">>>>) }
Espa1Rows == {
    Row(h_espa1, <<v_P001, v_M>>),
    Row(h_espa1, <<v_P002, <<>>>>) }
Espa2Rows == {
    Row(h_espa2, <<v_P001, <<"4","2","-","r","e","d">>, <<"B","a","s","i","c">>>>),
    Row(h_espa2, <<v_P003, <<"b","l","u","e">>, <<>>>>),
    Row(h_espa2, <<<<>>, <<"m"," ","-"," ","r","e","d">>, <<>>>>) }
Espa3Rows == {
    Row(h_espa3, <<v_P002, <<"L">>, <<"4","2","-","r","e","d">>>>),
    Row(h_espa3, <<v_P003, v_M, <<"b","l","u","e">>>>) }
GuircaEanRows == {
    Row(h_guirca_ean, <<<<>>, <<"8","0","0">>, v_M>>),
    Row(h_guirca_ean, <<v_P001, <<"8","0","1">>, v_M>>) }
PlainRows == { Row(h_plain, <<v_P001, v_M, v_hat>>) }
AcmeRows  == { Row(h_acme, <<v_P001, v_M>>) }

File(supplier, headers, rows, faults) ==
    [kind |-> "file", supplier |-> supplier, readable |-> TRUE,
     headers |-> headers, rows |-> rows, io_faults |-> faults]
Unreadable(supplier) ==
    [kind |-> "file", supplier |-> supplier, readable |-> FALSE,
     headers |-> <<>>, rows |-> <<>>, io_faults |-> {}]
EmptyDir(supplier) ==
    [kind |-> "empty_dir", supplier |-> supplier, readable |-> FALSE,
     headers |-> <<>>, rows |-> <<>>, io_faults |-> {}]

\* no row, or one row, of the file on which reading the context csv fails
FilesOf(supplier, headers, pool) ==
    {File(supplier, headers, rows, faults) :
        rows \in SeqsUpTo(pool, MaxRows), faults \in {{}}} \cup
    UNION {{File(supplier, headers, rows, {i}) : i \in DOMAIN rows} :
              rows \in SeqsUpTo(pool, MaxRows)}

\* runs of a single supplier file, every choice of up to MaxRows rows
SingleFileRuns ==
    {<<f>> : f \in FilesOf(s_guirca, h_guirca, GuircaRows)
                \cup FilesOf(s_espa, h_espa1, Espa1Rows)
                \cup FilesOf(s_ESPA, h_espa2, Espa2Rows)
                \cup FilesOf(s_espa, h_espa3, Espa3Rows)
                \cup FilesOf(s_acme, h_acme, AcmeRows)
                \cup FilesOf(s_widmann, h_plain, PlainRows)
                \cup FilesOf(s_Guirca, h_guirca, GuircaRows)
                \cup FilesOf(s_guirca, h_guirca_ean, GuircaEanRows)}

\* runs of up to MaxFiles entries, each a sample file, an unreadable file or
\* a supplier directory without files
SampleRows(k) ==
    CASE k = 1 -> Row(h_guirca, <<v_P001, v_M, v_hat, v_img>>)
      [] k = 2 -> Row(h_guirca, <<v_P002, <<"3","6","-","3","7">>, v_hat, v_img>>)
      [] k = 3 -> Row(h_guirca, <<v_P001, <<"5">>, <<>>, <<>>>>)
      [] k = 4 -> Row(h_espa2, <<v_P001, <<"4","2","-","r","e","d">>, <<>>>>)
      [] k = 5 -> Row(h_espa2, <<v_P003, <<"4","-","x">>, <<>>>>)
SampleEntries == {
    File(s_guirca, h_guirca, <<SampleRows(1), SampleRows(2)>>, {}),
    File(s_guirca, h_guirca, <<SampleRows(2), SampleRows(3)>>, {}),
    File(s_guirca, h_guirca, <<SampleRows(3), SampleRows(1)>>, {1}),
    File(s_espa, h_espa2, <<SampleRows(4), SampleRows(5)>>, {}),
    File(s_espa, h_espa1, <<Row(h_espa1, <<v_P002, v_M>>)>>, {}),
    File(s_acme, h_acme, <<Row(h_acme, <<v_P001, v_M>>)>>, {}),
    File(s_widmann, h_plain, <<Row(h_plain, <<v_P003, v_M, v_hat>>)>>, {}),
    Unreadable(s_guirca),
    EmptyDir(s_espa) }
SampleRuns == SeqsUpTo(SampleEntries, MaxFiles)

RunInputs == SingleFileRuns \cup SampleRuns

\* the size configuration of a run: well formed, or without size_type_mapping
RunConfigs ==
    {[sections |-> secs, size_type_mapping |-> SizeTypeMapping,
      size_sets |-> [k \in {s_guirca} |->
                        << [name |-> "abbigliamento", sizes |-> {<<"T","U">>, <<"x","l">>}] >>],
      category_indicators |-> <<>>] :
        secs \in {AllSections, AllSections \ {"size_type_mapping"}}}

(***************************************************************************)
(* Spec: main.process_catalogs, i.e. CatalogProcessor(config),             *)
(* load_mapping() and process_all_catalogs(), one step per file and row    *)
(***************************************************************************)
Init ==
    /\ pc = "init"
    /\ mapping_table = MappingTable
    /\ context_table = ContextTable
    /\ size_cfg \in RunConfigs
    /\ load_ok \in {"ok", "no_size_config", "no_mapping"}
    /\ files \in RunInputs
    /\ magento_mappings = <<>>
    /\ file_idx = 0 /\ row_idx = 0
    /\ result_data = <<>> /\ all_data = <<>>
    /\ output = <<>> /\ written = FALSE
    /\ log = <<>>
    /\ sz_pc = "idle" /\ sz_kind = "absent" /\ sz_raw = <<>>
    /\ sz_supplier = <<>> /\ sz_config = <<>> /\ sz_result = Ret(<<>>, "", "")
    /\ ImageIdle
    /\ RootIdle
    /\ EnrichIdle
    /\ ContentIdle

file == files[file_idx]
mapping == magento_mappings[StrLower(file.supplier)]
Transformed ==
    TransformRow(file.headers, file.rows[row_idx], file.supplier, mapping,
                 context_table, size_cfg, row_idx \in file.io_faults)

\* CatalogProcessor.__init__ line 64 -> SizeAttributeProcessor.__init__ lines 13-14
Construct ==
    /\ pc = "init"
    /\ pc' = IF load_ok = "no_size_config" THEN "failed" ELSE "constructed"
    /\ UNCHANGED <<mapping_table, context_table, size_cfg, load_ok, files,
                   magento_mappings, file_idx, row_idx, result_data, all_data,
                   output, written, log>>
    /\ UNCHANGED not_run_vars

\* load_mapping, lines 103-134: a csv that cannot be read re-raises
LoadMapping ==
    /\ pc = "constructed"
    /\ IF load_ok = "no_mapping"
       THEN /\ pc' = "failed"
            /\ log' = Append(log, LogEntry("error", "load_mappings", 0, 0))
            /\ UNCHANGED magento_mappings
       ELSE /\ pc' = "loaded"
            /\ magento_mappings' = load_mapping(mapping_table)
            /\ UNCHANGED log
    /\ UNCHANGED <<mapping_table, context_table, size_cfg, load_ok, files,
                   file_idx, row_idx, result_data, all_data, output, written>>
    /\ UNCHANGED not_run_vars

\* process_all_catalogs lines 394-401
StartRun ==
    /\ pc = "loaded"
    /\ IF files = <<>>
       THEN /\ pc' = "done"
            /\ log' = Append(log, LogEntry("warning", "no_supplier_dirs", 0, 0))
            /\ UNCHANGED file_idx
       ELSE /\ pc' = "next_file"
            /\ file_idx' = 1
            /\ UNCHANGED log
    /\ UNCHANGED <<mapping_table, context_table, size_cfg, load_ok, files,
                   magento_mappings, row_idx, result_data, all_data, output, written>>
    /\ UNCHANGED not_run_vars

NextFile(entries) ==
    /\ pc' = "next_file"
    /\ file_idx' = file_idx + 1
    /\ log' = log \o entries
    /\ UNCHANGED <<mapping_table, context_table, size_cfg, load_ok, files,
                   magento_mappings, row_idx, result_data, output, written>>
    /\ UNCHANGED not_run_vars

\* lines 405-408: a supplier directory without .xlsx files
SkipEmptyDir ==
    /\ pc = "next_file" /\ file_idx <= Len(files)
    /\ file.kind = "empty_dir"
    /\ NextFile(<<>>)
    /\ UNCHANGED all_data

\* variant: the exception of lines 387-389 is re-raised and ends the run
OpenFails_Raises ==
    /\ pc = "next_file" /\ file_idx <= Len(files)
    /\ file.kind = "file" /\ ~file.readable
    /\ pc' = "failed"
    /\ log' = Append(log, LogEntry("error", "process_catalog", file_idx, 0))
    /\ UNCHANGED <<mapping_table, context_table, size_cfg, load_ok, files,
                   magento_mappings, file_idx, row_idx, result_data, all_data,
                   output, written>>
    /\ UNCHANGED not_run_vars

\* process_catalog lines 201, 387-389: the workbook cannot be loaded
OpenFails ==
    /\ pc = "next_file" /\ file_idx <= Len(files)
    /\ file.kind = "file" /\ ~file.readable
    /\ NextFile(<<LogEntry("error", "process_catalog", file_idx, 0)>>)
    /\ UNCHANGED all_data

\* process_catalog lines 226-229: no Magento mapping for the supplier
NoMapping ==
    /\ pc = "next_file" /\ file_idx <= Len(files)
    /\ file.kind = "file" /\ file.readable
    /\ StrLower(file.supplier) \notin DOMAIN magento_mappings
    /\ NextFile(<<LogEntry("error", "no_mapping", file_idx, 0)>>)
    /\ UNCHANGED all_data

\* process_catalog lines 201-255: the file is read and the row loop begins
OpenFile ==
    /\ pc = "next_file" /\ file_idx <= Len(files)
    /\ file.kind = "file" /\ file.readable
    /\ StrLower(file.supplier) \in DOMAIN magento_mappings
    /\ pc' = "rows"
    /\ row_idx' = 1
    /\ result_data' = <<>>
    /\ UNCHANGED <<mapping_table, context_table, size_cfg, load_ok, files,
                   magento_mappings, file_idx, all_data, output, written, log>>
    /\ UNCHANGED not_run_vars

RowDone(rows, entries) ==
    /\ result_data' = rows
    /\ row_idx' = row_idx + 1
    /\ log' = log \o entries
    /\ UNCHANGED <<pc, mapping_table, context_table, size_cfg, load_ok, files,
                   magento_mappings, file_idx, all_data, output, written>>
    /\ UNCHANGED not_run_vars

\* lines 258-360: the row is transformed and appended
RowEmitted ==
    /\ pc = "rows" /\ row_idx <= Len(file.rows)
    /\ Transformed.status = "ok"
    /\ RowDone(Append(result_data, Transformed.row), <<>>)

\* lines 283-285: no sku, the row is skipped with a warning
RowSkipped ==
    /\ pc = "rows" /\ row_idx <= Len(file.rows)
    /\ Transformed.status = "skip"
    /\ RowDone(result_data, <<LogEntry("warning", "skip_no_sku", file_idx, row_idx)>>)

\* variant: the handler of lines 362-364 leaves the row loop
RowFailed_Break ==
    /\ pc = "rows" /\ row_idx <= Len(file.rows)
    /\ Transformed.status = "error"
    /\ result_data' = result_data
    /\ row_idx' = Len(file.rows) + 1
    /\ log' = Append(log, LogEntry("error", "row_error", file_idx, row_idx))
    /\ UNCHANGED <<pc, mapping_table, context_table, size_cfg, load_ok, files,
                   magento_mappings, file_idx, all_data, output, written>>
    /\ UNCHANGED not_run_vars

\* lines 362-364: an exception in the row is logged and the loop continues
RowFailed ==
    /\ pc = "rows" /\ row_idx <= Len(file.rows)
    /\ Transformed.status = "error"
    /\ RowDone(result_data, <<LogEntry("error", "row_error", file_idx, row_idx)>>)

\* lines 380-384: the row counts process_catalog reports
RowCounts ==
    [processed |-> Len(result_data),
     empty_sizes |-> Cardinality({i \in DOMAIN result_data :
                                     "size" \notin DOMAIN result_data[i]})]

\* lines 366-385: what process_catalog returns, <<>> for None
CatalogResult(rows) ==
    IF rows = <<>> THEN <<>>
    ELSE IF ~({"size", "size_set", "size_type"} \subseteq Columns(rows)) THEN <<>>
    ELSE <<rows>>
CatalogLog(rows, f) ==
    IF rows = <<>> THEN <<LogEntry("warning", "no_valid_data", f, 0)>>
    ELSE IF ~({"size", "size_set", "size_type"} \subseteq Columns(rows))
         THEN <<LogEntry("error", "missing_columns", f, 0)>>
         ELSE <<>>

\* lines 366-385 and 411-413: the file's frame is appended unless None
CloseFile ==
    /\ pc = "rows" /\ row_idx > Len(file.rows)
    /\ all_data' = all_data \o CatalogResult(result_data)
    /\ NextFile(CatalogLog(result_data, file_idx))

\* lines 415-434: concat, drop duplicates on sku, write the csv
Finish ==
    /\ pc = "next_file" /\ file_idx > Len(files)
    /\ pc' = "done"
    /\ IF all_data # <<>>
       THEN IF {"size", "size_set", "size_type"} \subseteq Columns(Concat(all_data))
            THEN /\ output' = drop_duplicates(Concat(all_data))
                 /\ written' = TRUE
                 /\ UNCHANGED log
            ELSE /\ log' = Append(log, LogEntry("error", "missing_columns", 0, 0))
                 /\ UNCHANGED <<output, written>>
       ELSE UNCHANGED <<output, written, log>>
    /\ UNCHANGED <<mapping_table, context_table, size_cfg, load_ok, files,
                   magento_mappings, file_idx, row_idx, result_data, all_data>>
    /\ UNCHANGED not_run_vars

Next ==
    \/ Construct
    \/ LoadMapping
    \/ StartRun
    \/ SkipEmptyDir
    \/ OpenFails
    \/ NoMapping
    \/ OpenFile
    \/ RowEmitted
    \/ RowSkipped
    \/ RowFailed
    \/ CloseFile
    \/ Finish

Spec == Init /\ [][Next]_vars

(***************************************************************************)
(* The two image filename reductions:                                      *)
(*   CatalogProcessor._strip_image_url  (src/src/processors)               *)
(*   CatalogProcessor.extract_filename  (src/catalog_processor.py)         *)
(***************************************************************************)
s_jpg == <<".","j","p","g">>
EndsWith(s, suffix) ==
    /\ Len(s) >= Len(suffix)
    /\ SubSeq(s, Len(s) - Len(suffix) + 1, Len(s)) = suffix

\* the part of p after its last character of seps, p itself when it has none
AfterLast(p, seps) ==
    LET at == {i \in DOMAIN p : p[i] \in seps}
    IN  IF at = {} THEN p
        ELSE SubSeq(p, (CHOOSE i \in at : \A j \in at : j <= i) + 1, Len(p))

\* os.path.basename: posixpath splits on '/', ntpath drops a drive "x:" and
\* splits on '/' and '\'
basename(p, platform) ==
    IF platform = "posix" THEN AfterLast(p, {"/"})
    ELSE LET rest == IF Len(p) >= 2 /\ p[2] = ":" THEN SubSeq(p, 3, Len(p)) ELSE p
         IN  AfterLast(rest, {"/", "\\"})

\* extract_filename, lines 60-73
extract_filename(kind, url, platform) ==
    IF kind # "str" \/ url = <<>> THEN <<>>
    ELSE LET u == StrStrip(url)
         IN  IF StrLower(u) = s_nan \/ u = <<>> THEN <<>>
             ELSE LET filename == basename(u, platform)
                  IN  IF EndsWith(StrLower(filename), s_jpg) THEN filename
                      ELSE Head(StrSplit(filename, ".")) \o s_jpg

\* _strip_image_url with its pd.isna guard, lines 66-71
strip_image_url(kind, image_path) ==
    IF kind # "str" THEN <<>> ELSE _strip_image_url(image_path)

Reduce(fn, kind, url, platform) ==
    IF fn = "extract_filename" THEN extract_filename(kind, url, platform)
    ELSE strip_image_url(kind, url)

MaxUrlLen == 3
UrlChars == {"a", ".", "/", "\\", " ", ":"}
NamedUrls == {
    <<"h","t","t","p",":","/","/","x","/","i","/","a",".","p","n","g">>,
    <<"h","t","t","p",":","/","/","x","/","i","/">>,
    <<"C",":","\\","d","\\","b",".","J","P","G">>,
    <<"d","\\","b",".","p","n","g">>,
    <<"a",".","j","p","g">>, <<"a",".","b",".","p","n","g">>,
    <<"x","/",".","p","n","g">>, <<"x","/"," ","a",".","j","p","g">>,
    <<"n","a","n">>, <<" ","N","a","N"," ">>, <<"x","/","n","a","n">>,
    <<".","j","p","g">>, <<"a","b","c">> }
ImageUrls == StringsUpTo(UrlChars, MaxUrlLen) \cup NamedUrls

\* ntpath treats a path that begins with two separators as a UNC path; such
\* paths are not among the inputs
UncLike(p) == Len(p) >= 2 /\ p[1] \in {"/", "\\"} /\ p[2] \in {"/", "\\"}

InitImage ==
    /\ im_pc = "call"
    /\ im_fn \in {"_strip_image_url", "extract_filename"}
    /\ im_kind \in {"none", "nan", "str"}
    /\ im_url \in (IF im_kind = "str" THEN ImageUrls ELSE {<<>>})
    /\ im_platform \in {"posix", "nt"}
    /\ ~UncLike(im_url)
    /\ im_once = <<>> /\ im_twice = <<>>
    /\ RunIdle /\ SizeIdle /\ RootIdle /\ EnrichIdle /\ ContentIdle

ReduceOnce ==
    /\ im_pc = "call"
    /\ im_once' = Reduce(im_fn, im_kind, im_url, im_platform)
    /\ im_pc' = "once"
    /\ UNCHANGED <<im_fn, im_kind, im_url, im_platform, im_twice>>
    /\ UNCHANGED not_image_vars

ReduceTwice ==
    /\ im_pc = "once"
    /\ im_twice' = Reduce(im_fn, "str", im_once, im_platform)
    /\ im_pc' = "twice"
    /\ UNCHANGED <<im_fn, im_kind, im_url, im_platform, im_once>>
    /\ UNCHANGED not_image_vars

NextImage == ReduceOnce \/ ReduceTwice
SpecImage == InitImage /\ [][NextImage]_vars

(***************************************************************************)
(* src/catalog_processor.py: the CatalogProcessor built on pandas frames.  *)
(* A frame is a sequence of rows, a row a function from column names to    *)
(* cells; a cell is a string, or NA for pandas' NaN. additional_context    *)
(* holds None or a dict.                                                   *)
(***************************************************************************)
NA == <<"NaN">>
NoneValue == <<"None">>

\* str(value)
Str(v) == IF v = NA THEN s_nan ELSE v

\* field_categories, lines 16-29: the alternatives of each pattern
field_categories == <<
    [category |-> "dimensions",
     words |-> {<<"d","i","m","e","n","s","i","o","n">>, <<"s","i","z","e">>, <<"t","a","l","l","a">>, <<"m","i","s","u","r">>, <<"a","l","t","e","z","z","a">>, <<"l","a","r","g","h","e","z","z","a">>, <<"p","r","o","f">>, <<"t","a","g","l","i","a">>}],
    [category |-> "colors",
     words |-> {<<"c","o","l","o","r">>, <<"c","o","l","o","u","r">>, <<"c","o","l","o","r","s">>, <<"c","o","l","o","r","e","s">>}],
    [category |-> "materials",
     words |-> {<<"m","a","t","e","r","i","a","l">>, <<"c","o","m","p","o","s">>, <<"f","a","b","r","i","c">>, <<"t","e","s","s","u","t">>}],
    [category |-> "categories",
     words |-> {<<"c","a","t","e","g">>, <<"t","i","p","o">>, <<"c","l","a","s","s">>, <<"g","r","o","u","p">>}],
    [category |-> "descriptions",
     words |-> {<<"d","e","s","c">>, <<"d","e","t","a","i","l">>, <<"s","p","e","c">>, <<"c","a","r","a","t","t">>}],
    [category |-> "themes",
     words |-> {<<"t","h","e","m","e">>, <<"t","e","m","a">>, <<"o","c","c","a","s">>, <<"e","v","e","n","t">>}],
    [category |-> "features",
     words |-> {<<"f","e","a","t">>, <<"c","a","r","a","t">>, <<"f","u","n","z">>, <<"o","p","t","i","o","n","s">>}],
    [category |-> "brand",
     words |-> {<<"b","r","a","n","d">>, <<"m","a","r","c","a">>, <<"p","r","o","d","u","t">>, <<"m","a","n","u","f","a","c">>}],
    [category |-> "target",
     words |-> {<<"t","a","r","g","e","t">>, <<"e","t","à">>, <<"a","g","e">>, <<"g","e","n","d","e","r">>, <<"s","e","x">>}],
    [category |-> "packaging",
     words |-> {<<"p","a","c","k">>, <<"c","o","n","f">>, <<"i","m","b","a","l","l","o">>, <<"c","o","n","t","e","n","t">>}],
    [category |-> "season",
     words |-> {<<"s","e","a","s","o","n">>, <<"s","t","a","g">>, <<"t","e","m","p">>}],
    [category |-> "technical",
     words |-> {<<"t","e","c","h">>, <<"s","p","e","c","s">>, <<"s","p","e","c","i","f","i","c">>}] >>

\* categorize_field, lines 153-159
categorize_field(field_name) ==
    LET field_lower == StrLower(field_name)
        hits == {k \in DOMAIN field_categories :
                    ReSearch(Re(FALSE, <<Alt(field_categories[k].words)>>, FALSE),
                             field_lower)}
    IN  IF hits = {} THEN "other" ELSE field_categories[Least(hits)].category

IsDigitString(s) == s # <<>> /\ \A i \in DOMAIN s : s[i] \in Digits

\* is_valuable_content, lines 161-171
is_valuable_content(value) ==
    IF value = NA THEN FALSE
    ELSE LET str_value == StrStrip(value)
         IN  /\ str_value # <<>> /\ StrLower(str_value) # s_nan
             /\ ~(Len(str_value) < 2 \/ IsDigitString(str_value))

\* create_universal_context, lines 173-196: a category with one item holds the
\* bare value, with several the list of values
RECURSIVE ContextItems(_, _, _)
ContextItems(cols, row, mapped_columns) ==
    IF cols = <<>> THEN <<>>
    ELSE LET col == Head(cols)
             rest == ContextItems(Tail(cols), row, mapped_columns)
         IN  IF col \notin mapped_columns /\ is_valuable_content(row[col])
             THEN <<[category |-> categorize_field(col), value |-> StrStrip(row[col])]>> \o rest
             ELSE rest
create_universal_context(row, df_columns, mapped_columns) ==
    LET items == ContextItems(df_columns, row, mapped_columns)
        cats == {items[i].category : i \in DOMAIN items}
        ValuesOf(c) == SelectSeq(items, LAMBDA it : it.category = c)
    IN  IF items = <<>> THEN NoneValue
        ELSE [c \in cats |->
                 [bare |-> Len(ValuesOf(c)) = 1,
                  values |-> [i \in DOMAIN ValuesOf(c) |-> ValuesOf(c)[i].value]]]

\* load_mapping, lines 31-58, of the mapping csv
\*   [suppliers |-> the supplier column names,
\*    rows |-> <<[field, default, cells]>>]
RECURSIVE UniqueAcc(_, _)
UniqueAcc(s, seen) ==
    IF s = <<>> THEN <<>>
    ELSE IF Head(s) \in seen THEN UniqueAcc(Tail(s), seen)
         ELSE <<Head(s)>> \o UniqueAcc(Tail(s), seen \cup {Head(s)})
root_magento_fields(table) ==
    UniqueAcc([i \in DOMAIN table.rows |-> table.rows[i].field], {})
\* df.set_index("Magento Field")["Default"].to_dict(): the last row of a field wins
root_default_values(table) ==
    [f \in {table.rows[i].field : i \in DOMAIN table.rows} |->
        table.rows[CHOOSE i \in DOMAIN table.rows :
                      /\ table.rows[i].field = f
                      /\ \A j \in DOMAIN table.rows :
                            table.rows[j].field = f => j <= i].default]
RECURSIVE RootColumnMapping(_, _, _)
RootColumnMapping(rows, ci, acc) ==
    IF rows = <<>> THEN acc
    ELSE LET r == Head(rows)
             cell == r.cells[ci]
         IN  RootColumnMapping(Tail(rows), ci,
                 IF cell = NA THEN acc
                 ELSE Put(acc, r.field, Get(acc, r.field, <<>>) \o <<cell>>))
RECURSIVE RootSupplierMappings(_, _, _)
RootSupplierMappings(table, ci, acc) ==
    IF ci > Len(table.suppliers) THEN acc
    ELSE RootSupplierMappings(table, ci + 1,
             Put(acc, StrLower(StrStrip(table.suppliers[ci])),
                 RootColumnMapping(table.rows, ci, EmptyDict)))
root_load_mapping(table) ==
    [magento_fields |-> root_magento_fields(table),
     default_values |-> root_default_values(table),
     supplier_mappings |-> RootSupplierMappings(table, 1, EmptyDict)]

\* the values of one magento field for every row of the frame, lines 234-280;
\* [exc, col], col[i] the value of row i
combine_images(row, existing_cols, platform) ==
    LET names == [k \in DOMAIN existing_cols |->
                     extract_filename(IF row[existing_cols[k]] = NA THEN "nan" ELSE "str",
                                      row[existing_cols[k]], platform)]
    IN  JoinComma(SelectSeq(names, LAMBDA n : n # <<>>))

RootField(magento_field, df, headers, supplier_mapping, default_values, platform) ==
    LET supplier_cols == Get(supplier_mapping, magento_field, <<>>)
        existing_cols == SelectSeq(supplier_cols, LAMBDA c : c \in Range(headers))
        default == Get(default_values, magento_field, <<>>)
        All(v) == [exc |-> "", col |-> [i \in DOMAIN df |-> v]]
    IN  IF magento_field \notin DOMAIN supplier_mapping \/ existing_cols = <<>> THEN All(default)
        ELSE IF magento_field \in {"base_image", "small_image", "thumbnail_image"}
        THEN \* df[existing_cols[0]].iloc[0]: the first row's value, for every row
             IF df = <<>> THEN [exc |-> "IndexError", col |-> <<>>]
             ELSE LET img_url == Str(df[1][existing_cols[1]])
                  IN  All(extract_filename("str", img_url, platform))
        ELSE IF magento_field = "additional_images"
        THEN [exc |-> "",
              col |-> [i \in DOMAIN df |-> combine_images(df[i], existing_cols, platform)]]
        ELSE IF Len(existing_cols) = 1
        THEN [exc |-> "", col |-> [i \in DOMAIN df |-> df[i][existing_cols[1]]]]
        ELSE \* apply() without axis=1 joins each column; the Series it returns is
             \* labelled by column name, so no row label matches on assignment
             All(NA)

RECURSIVE RootFields(_, _, _, _, _, _, _)
RootFields(fields, df, headers, supplier_mapping, default_values, platform, processed) ==
    IF fields = <<>> THEN [exc |-> "", rows |-> processed]
    ELSE LET r == RootField(Head(fields), df, headers, supplier_mapping, default_values, platform)
         IN  IF r.exc # "" THEN [exc |-> r.exc, rows |-> <<>>]
             ELSE RootFields(Tail(fields), df, headers, supplier_mapping, default_values, platform,
                             [i \in DOMAIN df |-> Put(processed[i], Head(fields), r.col[i])])

\* the union of the supplier columns of a supplier_mapping
MappedColumnSet(supplier_mapping) == UNION {Range(supplier_mapping[f]) : f \in DOMAIN supplier_mapping}

\* process_catalog, lines 198-289: [none, rows, log]; none for a None result
root_process_catalog(supplier_name, f, loaded, platform) ==
    LET supplier_key == StrLower(StrStrip(supplier_name))
        supplier_mapping == Get(loaded.supplier_mappings, supplier_key, EmptyDict)
        context == [i \in DOMAIN f.rows |->
                      [c \in {"additional_context"} |->
                          create_universal_context(f.rows[i], f.headers,
                                                   MappedColumnSet(supplier_mapping))]]
        done == RootFields(loaded.magento_fields, f.rows, f.headers, supplier_mapping,
                           loaded.default_values, platform, context)
    IN  IF ~f.readable
        THEN [none |-> TRUE, rows |-> <<>>, log |-> <<"error">>]
        ELSE IF supplier_mapping = EmptyDict
        THEN [none |-> TRUE, rows |-> <<>>, log |-> <<"warning">>]
        ELSE IF done.exc # ""
        THEN [none |-> TRUE, rows |-> <<>>, log |-> <<"error">>]
        ELSE [none |-> FALSE,
              rows |-> [i \in DOMAIN f.rows |-> Put(done.rows[i], "fornitore", supplier_name)],
              log |-> <<>>]

(***************************************************************************)
(* The descriptive-field cache of src/catalog_processor.py                 *)
(***************************************************************************)
\* len(value.split()): the runs of characters other than whitespace
WordCount(s) == Cardinality({i \in DOMAIN s : s[i] # " " /\ (i = 1 \/ s[i - 1] = " ")})
\* value contains r'[^a-zA-Z0-9\s]'
HasSpecialChar(s) ==
    \E i \in DOMAIN s : s[i] \notin Range(LowerChars) \cup Range(UpperChars) \cup Digits \cup {" "}
RECURSIVE SumSeq(_)
SumSeq(q) == IF q = <<>> THEN 0 ELSE Head(q) + SumSeq(Tail(q))

\* analyze_field_content, lines 75-102. The means are compared as sums
\* against n times the threshold, and the score is kept doubled (4, 4, 3, 2,
\* 1 against a threshold of 6) so that it stays an integer
analyze_field_content(values) ==
    LET non_empty == SelectSeq(values, LAMBDA v : v # NA)
        n == Len(non_empty)
        numeric == Cardinality({i \in 1..n : IsDigitString(non_empty[i])})
        special == Cardinality({i \in 1..n : HasSpecialChar(non_empty[i])})
        score2 == (IF SumSeq([i \in 1..n |-> Len(non_empty[i])]) > 15 * n THEN 4 ELSE 0)
                + (IF SumSeq([i \in 1..n |-> WordCount(non_empty[i])]) > 3 * n THEN 4 ELSE 0)
                + (IF 10 * Cardinality(Range(non_empty)) > 3 * n THEN 3 ELSE 0)
                + (IF 2 * numeric < n THEN 2 ELSE 0)
                + (IF 10 * special < 3 * n THEN 1 ELSE 0)
    IN  IF n = 0 THEN [score2 |-> 0, is_descriptive |-> FALSE]
        ELSE [score2 |-> score2, is_descriptive |-> score2 > 6]

\* df[col].dtype == object: a column read from a sheet holds text unless every
\* one of its cells is empty, and the columns of a sheet without rows are object
RootIsObject(f, col) == f.rows = <<>> \/ \E i \in DOMAIN f.rows : f.rows[i][col] # NA

\* get_descriptive_fields, lines 104-116
get_descriptive_fields(f, mapped_columns) ==
    [col \in {c \in Range(f.headers) : c \notin mapped_columns /\ RootIsObject(f, c)} |->
        analyze_field_content([i \in DOMAIN f.rows |-> f.rows[i][col]]).is_descriptive]

\* the same step filling the cache on every call
root_descriptive_cache_Always(st, supplier_name, f, loaded) ==
    LET supplier_key == StrLower(StrStrip(supplier_name))
        supplier_mapping == Get(loaded.supplier_mappings, supplier_key, EmptyDict)
    IN  IF ~f.readable \/ supplier_mapping = EmptyDict
        THEN st
        ELSE [cache |-> Put(st.cache, supplier_key,
                            get_descriptive_fields(f, MappedColumnSet(supplier_mapping))),
              scored |-> Put(st.scored, supplier_key, Get(st.scored, supplier_key, 0) + 1)]

\* process_catalog, lines 201-221: what a call does to the cache. The frame
\* is read and the supplier has a mapping before line 220 is reached, and the
\* entry stays when a later line of the call raises
root_descriptive_cache(st, supplier_name, f, loaded) ==
    LET supplier_key == StrLower(StrStrip(supplier_name))
        supplier_mapping == Get(loaded.supplier_mappings, supplier_key, EmptyDict)
    IN  IF ~f.readable \/ supplier_mapping = EmptyDict \/ supplier_key \in DOMAIN st.cache
        THEN st
        ELSE [cache |-> Put(st.cache, supplier_key,
                            get_descriptive_fields(f, MappedColumnSet(supplier_mapping))),
              scored |-> Put(st.scored, supplier_key, Get(st.scored, supplier_key, 0) + 1)]

(***************************************************************************)
(* process_all_catalogs of src/catalog_processor.py                        *)
(***************************************************************************)
\* final_df.drop_duplicates(subset=['sku', 'EAN'], keep='first'); two NaN are
\* the same value to pandas' duplicated
RECURSIVE RootDropDuplicatesAcc(_, _)
RootDropDuplicatesAcc(rows, seen) ==
    IF rows = <<>> THEN <<>>
    ELSE LET k == <<Head(rows)["sku"], Head(rows)["EAN"]>>
         IN  IF k \in seen THEN RootDropDuplicatesAcc(Tail(rows), seen)
             ELSE <<Head(rows)>> \o RootDropDuplicatesAcc(Tail(rows), seen \cup {k})
root_drop_duplicates(rows) == RootDropDuplicatesAcc(rows, {})

RootLog(level, event) == [level |-> level, event |-> event]

(***************************************************************************)
(* Inputs of a run of src/catalog_processor.py                             *)
(***************************************************************************)
c_DESC2 == <<"D","E","S","C","2">>
c_IMG2  == <<"I","M","G","2">>
c_NOTE  == <<"N","O","T","E">>
c_PRICE == <<"P","R","I","C","E">>
s_guirca_padded == <<"G","u","i","r","c","a"," ">>
s_zeta  == <<"z","e","t","a">>

RootRow(field, default, guirca_col, acme_col) ==
    [field |-> field, default |-> default, cells |-> <<guirca_col, acme_col>>]

\* the mapping csv: Magento Field, Default, then one column per supplier
RootTableRows == <<
    RootRow("sku",               NA,              c_CODE,  c_CODE),
    RootRow("EAN",               NA,              c_EAN,   NA),
    RootRow("name",              NA,              c_DESC,  c_DESC),
    RootRow("name",              NA,              c_DESC2, NA),
    RootRow("base_image",        NA,              c_IMG,   NA),
    RootRow("additional_images", NA,              c_IMG,   NA),
    RootRow("additional_images", NA,              c_IMG2,  NA),
    RootRow("status",            <<"o","n">>,     NA,      NA),
    RootRow("brand",             NA,              NA,      NA),
    RootRow("price",             <<"0">>,         c_PRICE, NA) >>
RootTable == [suppliers |-> <<s_guirca_padded, s_acme>>, rows |-> RootTableRows]
\* the same table without its EAN line
RootTableNoEAN ==
    [suppliers |-> <<s_guirca_padded, s_acme>>,
     rows |-> SelectSeq(RootTableRows, LAMBDA r : r.field # "EAN")]
RootTables == {RootTable, RootTableNoEAN}

rh_guirca == <<c_CODE, c_EAN, c_DESC, c_DESC2, c_IMG, c_IMG2, c_NOTE>>
rh_acme   == <<c_CODE, c_DESC>>

RootCells(headers, cells) ==
    [c \in Range(headers) |-> cells[CHOOSE i \in DOMAIN headers : headers[i] = c]]

RootGuircaRows == {
    RootCells(rh_guirca, << <<"P","1">>, <<"8","0","0">>, <<"h","a","t">>, <<"r","e","d">>,
                            <<"x","/","a",".","p","n","g">>, <<"b",".","j","p","g">>,
                            <<"s","o","f","t"," ","r","e","d"," ","f","e","l","t"," ",
                              "h","a","t"," ","x","l">> >>),
    RootCells(rh_guirca, << <<"P","2">>, NA, NA, <<" ","b","i","g"," ">>,
                            <<"c",".","j","p","g">>, NA, NA >>),
    RootCells(rh_guirca, << <<"P","1">>, <<"8","0","0">>, <<"w","i","g">>, NA,
                            NA, <<"x","/">>, <<"1","2">> >>),
    RootCells(rh_guirca, << <<"P","3">>, <<"8","0","1">>, NA, NA, NA, NA, NA >>) }
RootAcmeRows == {
    RootCells(rh_acme, << <<"P","9">>, <<"m","a","s","k">> >>),
    RootCells(rh_acme, << <<"P","1">>, NA >>) }

RootFile(name, headers, rows) ==
    [kind |-> "dir", name |-> name, excel |-> TRUE,
     file |-> [readable |-> TRUE, headers |-> headers, rows |-> rows]]
RootFilesOf(name, headers, pool) ==
    {RootFile(name, headers, rows) : rows \in SeqsUpTo(pool, MaxRows)}
RootUnreadable ==
    [kind |-> "dir", name |-> s_acme, excel |-> TRUE,
     file |-> [readable |-> FALSE, headers |-> <<>>, rows |-> <<>>]]
RootNoExcel ==
    [kind |-> "dir", name |-> s_acme, excel |-> FALSE,
     file |-> [readable |-> FALSE, headers |-> <<>>, rows |-> <<>>]]
RootNotDir ==
    [kind |-> "file", name |-> s_zeta, excel |-> FALSE,
     file |-> [readable |-> FALSE, headers |-> <<>>, rows |-> <<>>]]

RootSampleEntries ==
    LET g == CHOOSE s \in SeqsOfLen(RootGuircaRows, 2) : s[1][c_DESC] = <<"h","a","t">>
                                                      /\ s[2][c_CODE] = <<"P","2">>
        a == CHOOSE s \in SeqsOfLen(RootAcmeRows, 1) : s[1][c_CODE] = <<"P","1">>
    IN  { RootFile(s_guirca_padded, rh_guirca, SubSeq(g, 1, 1)),
          RootFile(s_guirca, rh_guirca, <<>>),
          RootFile(s_acme, rh_acme, a),
          RootFile(s_acme, rh_acme, <<>>),
          RootFile(s_zeta, rh_acme, a),
          RootUnreadable, RootNoExcel, RootNotDir }

RootRunInputs ==
    {<<e>> : e \in RootFilesOf(s_guirca_padded, rh_guirca, RootGuircaRows)
                   \cup RootFilesOf(s_acme, rh_acme, RootAcmeRows)}
        \cup SeqsUpTo(RootSampleEntries, MaxFiles)

InitRoot ==
    /\ rt_pc = "start"
    /\ rt_table \in RootTables
    /\ rt_load_ok \in BOOLEAN
    /\ rt_folder_ok \in BOOLEAN
    /\ rt_entries \in RootRunInputs
    /\ rt_platform \in {"posix", "nt"}
    /\ rt_loaded = <<>>
    /\ rt_idx = 0
    /\ rt_all = <<>>
    /\ rt_stats = [suppliers |-> 0, files |-> 0, rows |-> 0]
    /\ rt_output = <<>>
    /\ rt_written = FALSE
    /\ rt_log = <<>>
    /\ rt_exc = ""
    /\ rt_cache = EmptyDict
    /\ rt_scored = EmptyDict
    /\ RunIdle /\ SizeIdle /\ ImageIdle /\ EnrichIdle /\ ContentIdle

\* load_mapping, lines 31-58: the error is logged and raised again
RootLoadMapping ==
    /\ rt_pc = "start"
    /\ IF rt_load_ok
       THEN /\ rt_loaded' = root_load_mapping(rt_table)
            /\ rt_pc' = "loaded"
            /\ UNCHANGED <<rt_log, rt_exc>>
       ELSE /\ rt_log' = Append(rt_log, RootLog("error", "mapping_file"))
            /\ rt_exc' = "Exception"
            /\ rt_pc' = "raised"
            /\ UNCHANGED rt_loaded
    /\ UNCHANGED <<rt_table, rt_load_ok, rt_folder_ok, rt_entries, rt_platform, rt_idx,
                   rt_all, rt_stats, rt_output, rt_written, rt_cache, rt_scored>>
    /\ UNCHANGED not_root_vars

\* os.listdir(self.config.catalog_folder), line 296
RootListFolder ==
    /\ rt_pc = "loaded"
    /\ IF rt_folder_ok
       THEN rt_pc' = "loop" /\ rt_idx' = 1 /\ UNCHANGED rt_exc
       ELSE rt_pc' = "raised" /\ rt_exc' = "OSError" /\ UNCHANGED rt_idx
    /\ UNCHANGED <<rt_table, rt_load_ok, rt_folder_ok, rt_entries, rt_platform, rt_loaded,
                   rt_all, rt_stats, rt_output, rt_written, rt_log, rt_cache, rt_scored>>
    /\ UNCHANGED not_root_vars

RootEntry == rt_entries[rt_idx]
RootInLoop == rt_pc = "loop" /\ rt_idx <= Len(rt_entries)
RootNextEntry ==
    /\ rt_idx' = rt_idx + 1
    /\ rt_pc' = "loop"
    /\ UNCHANGED <<rt_table, rt_load_ok, rt_folder_ok, rt_entries, rt_platform, rt_loaded,
                   rt_output, rt_written, rt_exc>>
    /\ UNCHANGED not_root_vars

\* lines 303-304: an entry that is not a directory is passed over
RootSkipNotDir ==
    /\ RootInLoop
    /\ RootEntry.kind # "dir"
    /\ RootNextEntry
    /\ UNCHANGED <<rt_all, rt_stats, rt_log, rt_cache, rt_scored>>

\* lines 306-311: a directory without a spreadsheet
RootSkipNoExcel ==
    /\ RootInLoop
    /\ RootEntry.kind = "dir" /\ ~RootEntry.excel
    /\ RootNextEntry
    /\ rt_log' = Append(rt_log, RootLog("warning", "no_excel"))
    /\ UNCHANGED <<rt_all, rt_stats, rt_cache, rt_scored>>

\* a frame without rows whose spreadsheet has a column outside the mapping:
\* df.apply(..., axis=1) gives back a frame, and whether line 227 can assign
\* it to one column depends on the pandas release
RootApplyOnEmpty(e) ==
    /\ e.file.readable /\ e.file.rows = <<>>
    /\ LET m == Get(rt_loaded.supplier_mappings, StrLower(StrStrip(e.name)), EmptyDict)
       IN  m # EmptyDict /\ Range(e.file.headers) \ MappedColumnSet(m) # {}

\* lines 313-321: the first spreadsheet of the directory goes through
\* process_catalog
RootProcessOne ==
    /\ RootInLoop
    /\ RootEntry.kind = "dir" /\ RootEntry.excel
    /\ \E result \in {root_process_catalog(RootEntry.name, RootEntry.file, rt_loaded, rt_platform)}
                      \cup (IF RootApplyOnEmpty(RootEntry)
                            THEN {[none |-> TRUE, rows |-> <<>>, log |-> <<"error">>]}
                            ELSE {}) :
          /\ rt_log' = rt_log \o [k \in DOMAIN result.log |-> RootLog(result.log[k], "process_catalog")]
          /\ IF result.none
             THEN UNCHANGED <<rt_all, rt_stats>>
             ELSE /\ rt_all' = Append(rt_all, result.rows)
                  /\ rt_stats' = [suppliers |-> rt_stats.suppliers + 1,
                                  files |-> rt_stats.files + 1,
                                  rows |-> rt_stats.rows + Len(result.rows)]
    /\ LET c == root_descriptive_cache([cache |-> rt_cache, scored |-> rt_scored],
                                       RootEntry.name, RootEntry.file, rt_loaded)
       IN  rt_cache' = c.cache /\ rt_scored' = c.scored
    /\ RootNextEntry

\* lines 323-340: the frames are joined, de-duplicated on sku and EAN and saved
RootFinish ==
    /\ RootInLoop = FALSE /\ rt_pc = "loop"
    /\ IF rt_all # <<>>
       THEN IF {"sku", "EAN"} \subseteq Range(rt_loaded.magento_fields)
            THEN /\ rt_output' = root_drop_duplicates(Concat(rt_all))
                 /\ rt_written' = TRUE
                 /\ rt_pc' = "done"
                 /\ UNCHANGED <<rt_exc, rt_log>>
            ELSE /\ rt_exc' = "KeyError"
                 /\ rt_pc' = "raised"
                 /\ UNCHANGED <<rt_output, rt_written, rt_log>>
       ELSE /\ rt_log' = Append(rt_log, RootLog("warning", "no_data"))
            /\ rt_pc' = "done"
            /\ UNCHANGED <<rt_output, rt_written, rt_exc>>
    /\ UNCHANGED <<rt_table, rt_load_ok, rt_folder_ok, rt_entries, rt_platform, rt_loaded,
                   rt_idx, rt_all, rt_stats, rt_cache, rt_scored>>
    /\ UNCHANGED not_root_vars

NextRoot ==
    \/ RootLoadMapping
    \/ RootListFolder
    \/ RootSkipNotDir
    \/ RootSkipNoExcel
    \/ RootProcessOne
    \/ RootFinish

SpecRoot == InitRoot /\ [][NextRoot]_vars

(***************************************************************************)
(* ProductEnricher.enrich_products of src/src/enrich/enrichment.py         *)
(***************************************************************************)
\* (index + 1) % 10 == 0, line 256
CheckpointEvery == 10
MaxEnrichRows == 11
MaxOddRows == 2

fields_to_enrich == <<"name", "description", "url_key", "short_description">>

\* what the loop body does with a row:
\*   "enrich": the context has description, theme and color, four fields are set
\*   "skip":   a required context field is missing (line 237, continue)
\*   "fail0":  an exception before the first field is set (line 253, continue)
\*   "fail1":  an exception after name is set
RowKinds == {"enrich", "skip", "fail0", "fail1"}
FieldsSet(kind) ==
    CASE kind = "enrich" -> Range(fields_to_enrich)
      [] kind = "fail1" -> {"name"}
      [] OTHER -> {}

\* the input csv files: any number of rows, a few of them not enrichable
EnrichInputs ==
    UNION {{[i \in 1..n |-> IF i \in odd THEN kinds[i] ELSE "enrich"] :
               kinds \in [odd -> RowKinds \ {"enrich"}]} :
           <<n, odd>> \in {<<m, o>> \in (0..MaxEnrichRows) \X SUBSET (1..MaxEnrichRows) :
                               o \subseteq 1..m /\ Cardinality(o) <= MaxOddRows}}
EnrichCleanInputs == {[i \in 1..n |-> "enrich"] : n \in 0..MaxEnrichRows}

\* pd.read_csv: the rows labelled 0, 1, ... with the enriched columns unset
EnrichFrame(rows) == [i \in DOMAIN rows |-> [index |-> i - 1, kind |-> rows[i], set |-> {}]]

\* the input csv either has none of the columns to enrich, or already holds
\* a name and a description in every row
EnrichFilledColumns == {{}, {"name", "description"}}

\* what a cell of the frame holds: lines 240-243 assign the result of
\* improve_text("", ...), which is the generator's reply or "" and is computed
\* without the text the cell held; a cell they did not reach keeps the input
\* text, or the None of lines 214-218
EnrichValue(row, had, field) ==
    IF field \in row.set THEN "generated"
    ELSE IF field \in had THEN "input" ELSE "none"

\* output_df = df.copy() without product_context, then to_csv
EnrichOutput(df) == [i \in DOMAIN df |-> [index |-> df[i].index, set |-> df[i].set]]

InitEnrich ==
    /\ en_pc = "start"
    /\ en_input \in {"ok", "unreadable", "no_context_column"}
    /\ en_had \in EnrichFilledColumns
    /\ \/ en_test = FALSE /\ en_rows \in EnrichInputs
       \/ en_test = TRUE /\ en_rows \in EnrichCleanInputs
    /\ en_df = <<>>
    /\ en_pos = 0
    /\ en_file = <<>>
    /\ en_saved = FALSE
    /\ en_ret = "none"
    /\ RunIdle /\ SizeIdle /\ ImageIdle /\ RootIdle /\ ContentIdle

EnrichReturn(ret) ==
    /\ en_pc' = "returned"
    /\ en_ret' = ret
    /\ UNCHANGED <<en_input, en_rows, en_had, en_test, en_df, en_pos, en_file, en_saved>>
    /\ UNCHANGED not_enrich_vars

\* lines 201 and 272-274: the csv cannot be read
EnrichReadFails ==
    /\ en_pc = "start" /\ en_input = "unreadable"
    /\ EnrichReturn("False")

\* lines 204-206: the csv has no product_context column
EnrichNoContextColumn ==
    /\ en_pc = "start" /\ en_input = "no_context_column"
    /\ EnrichReturn("False")

\* lines 210-211: df.sample(n=2) of a frame with fewer than two rows raises
EnrichSampleFails ==
    /\ en_pc = "start" /\ en_input = "ok"
    /\ en_test /\ Len(en_rows) < 2
    /\ EnrichReturn("False")

\* lines 201-218: the frame is read, sampled in test mode, and the columns
\* to enrich are created
EnrichLoad ==
    /\ en_pc = "start" /\ en_input = "ok"
    /\ IF en_test
       THEN /\ Len(en_rows) >= 2
            /\ \E a \in DOMAIN en_rows : \E b \in DOMAIN en_rows \ {a} :
                  en_df' = <<EnrichFrame(en_rows)[a], EnrichFrame(en_rows)[b]>>
       ELSE en_df' = EnrichFrame(en_rows)
    /\ en_pc' = "loop"
    /\ UNCHANGED <<en_input, en_rows, en_had, en_test, en_pos, en_file, en_saved, en_ret>>
    /\ UNCHANGED not_enrich_vars

\* lines 222-262: one pass of the loop. A skipped or failed row leaves by
\* continue, before the periodic save of lines 255-262
EnrichRow ==
    /\ en_pc = "loop" /\ en_pos < Len(en_df)
    /\ LET row == en_df[en_pos + 1]
           df == [en_df EXCEPT ![en_pos + 1].set = FieldsSet(row.kind)]
       IN  /\ en_df' = df
           /\ en_pos' = en_pos + 1
           /\ IF row.kind = "enrich" /\ (row.index + 1) % CheckpointEvery = 0
              THEN en_file' = EnrichOutput(df) /\ en_saved' = TRUE
              ELSE UNCHANGED <<en_file, en_saved>>
    /\ UNCHANGED <<en_pc, en_input, en_rows, en_had, en_test, en_ret>>
    /\ UNCHANGED not_enrich_vars

\* lines 264-270: the final save
EnrichFinish ==
    /\ en_pc = "loop" /\ en_pos = Len(en_df)
    /\ en_file' = EnrichOutput(en_df)
    /\ en_saved' = TRUE
    /\ en_pc' = "returned"
    /\ en_ret' = "True"
    /\ UNCHANGED <<en_input, en_rows, en_had, en_test, en_df, en_pos>>
    /\ UNCHANGED not_enrich_vars

NextEnrich ==
    \/ EnrichReadFails
    \/ EnrichNoContextColumn
    \/ EnrichSampleFails
    \/ EnrichLoad
    \/ EnrichRow
    \/ EnrichFinish

SpecEnrich == InitEnrich /\ [][NextEnrich]_vars

(***************************************************************************)
(* ContentEnricher of src/content_enricher.py                              *)
(***************************************************************************)
\* (idx + 1) % 10 == 0, line 173
ContentCheckpointEvery == 10
\* test_limit, line 147
test_limit == 2
MaxContentRows == 3

\* self.fields_to_enrich, line 14
content_fields_to_enrich == <<"name", "description", "short_description", "url_key">>
HtmlTags == {<<"<","d","i","v">>, <<"<","h","2">>, <<"<","h","3">>, <<"<","p">>, <<"<","u","l">>, <<"<","l","i">>}

\* str.strip(chars)
RECURSIVE LStripChars(_, _)
LStripChars(s, cs) == IF s # <<>> /\ Head(s) \in cs THEN LStripChars(Tail(s), cs) ELSE s
RECURSIVE RStripChars(_, _)
RStripChars(s, cs) ==
    IF s # <<>> /\ s[Len(s)] \in cs THEN RStripChars(SubSeq(s, 1, Len(s) - 1), cs) ELSE s
StripChars(s, cs) == RStripChars(LStripChars(s, cs), cs)

\* the text format_html_description supplies itself, lines 72 and 79-80; a
\* fixed text is kept as one element of the string it becomes part of
PlaceholderFeature == <<"Versatile e di qualità">>
PlaceholderMaterials ==
    <<"Realizzato con materiali di alta qualità selezionati per garantire durata e comfort.">>
PlaceholderUsage ==
    <<"Perfetto per feste in maschera, carnevale, halloween e ogni occasione che richieda un costume originale.">>

\* self.html_template.format(...), lines 15-35 and 74-81
html_template_format(overview, feature1, feature2, feature3, materials, usage) ==
    <<"\n<div class=\"product-description\">\n    <h2>Descrizione del Prodotto</h2>\n    <div class=\"overview\">\n        <p>">>
    \o overview
    \o <<"</p>\n    </div>\n    \n    <h3>Caratteristiche Principali</h3>\n    <ul>\n        <li>">>
    \o feature1 \o <<"</li>\n        <li>">> \o feature2 \o <<"</li>\n        <li>">> \o feature3
    \o <<"</li>\n    </ul>\n    \n    <h3>Materiali e Qualità</h3>\n    <p>">>
    \o materials
    \o <<"</p>\n    \n    <h3>Utilizzo Consigliato</h3>\n    <p>">>
    \o usage
    \o <<"</p>\n</div>\n">>

\* format_html_description, lines 60-84
format_html_description(raw_content) ==
    IF \A tag \in HtmlTags : StrContains(tag, StrLower(raw_content))
    THEN raw_content
    ELSE LET lines == StrSplit(raw_content, "\n")
             overview == lines[1]
             rest == SubSeq(lines, 2, IF Len(lines) < 4 THEN Len(lines) ELSE 4)
             kept == SelectSeq(rest, LAMBDA l : StrStrip(l) # <<>>)
             found == [i \in DOMAIN kept |-> StrStrip(StripChars(kept[i], {"-", " "}))]
             features == found \o [i \in 1..(3 - Len(found)) |-> PlaceholderFeature]
         IN  html_template_format(overview, features[1], features[2], features[3],
                                  PlaceholderMaterials, PlaceholderUsage)

\* a reply of the chat completion: ok is FALSE when the call raises or the
\* message has no content, text is message.content otherwise
ContentFailure == [ok |-> FALSE, text |-> <<>>]
ContentReply(text) == [ok |-> TRUE, text |-> text]
t_reply  == <<" ","R","e","d"," ","H","a","t"," ">>
t_plain  == <<"H","a","t","\n","-"," ","r","e","d">>
t_tagged == <<"<","d","i","v",">","<","h","2",">","a","<","h","3",">","b","<","p",">","c","<","u","l",">","<","l","i",">","d">>
ContentReplies(field) ==
    IF field = "description"
    THEN {ContentFailure, ContentReply(<<>>), ContentReply(t_plain), ContentReply(t_tagged)}
    ELSE {ContentFailure, ContentReply(<<>>), ContentReply(t_reply)}

\* generate_content, lines 88-98: whether the call reaches the generator
ContentCalls(field, row, prompts) ==
    /\ field \in prompts
    /\ Str(row["additional_context"]) # <<>>
    /\ StrLower(Str(row["additional_context"])) # s_nan

\* generate_content, lines 86-133: [none, text]; none for a None result
generate_content(field, row, prompts, reply) ==
    IF ~ContentCalls(field, row, prompts) \/ ~reply.ok
    THEN [none |-> TRUE, text |-> <<>>]
    ELSE LET content == StrStrip(reply.text)
         IN  [none |-> FALSE,
              text |-> CASE field = "description" -> format_html_description(content)
                         [] field = "url_key" -> StrReplace(StrLower(content), " ", "-")
                         [] OTHER -> content]

\* the rows of config.output_file
ContentColumns == {"sku", "additional_context"} \cup Range(content_fields_to_enrich)
ContentRow(sku, name, context) ==
    [c \in ContentColumns |-> CASE c = "sku" -> sku
                                [] c = "name" -> name
                                [] c = "additional_context" -> context
                                [] OTHER -> NA]
t_context == <<"r","e","d"," ","h","a","t">>
ContentRowPool == {
    ContentRow(<<"P","1">>, NA, t_context),
    ContentRow(<<"P","2">>, <<"O","l","d">>, t_context),
    ContentRow(<<"P","3">>, NA, NA),
    ContentRow(NA, NA, t_context) }
\* files of up to MaxContentRows rows, and one long enough to have a row
\* whose label ends a group of ten
ContentInputs ==
    {[i \in 1..n |-> r] : n \in 0..MaxContentRows, r \in ContentRowPool}
        \cup {[i \in 1..ContentCheckpointEvery |-> ContentRow(<<"P","3">>, NA, NA)]}
ContentPrompts == {Range(content_fields_to_enrich), {"name", "description"}}
\* limit: None, 0 or a positive number
ContentLimits == {[none |-> TRUE, n |-> 0], [none |-> FALSE, n |-> 0], [none |-> FALSE, n |-> 1]}

\* df.drop(columns=['additional_context'], errors='ignore')
ContentDropContext(df) ==
    [k \in DOMAIN df |-> [idx |-> df[k].idx,
                          row |-> [c \in ContentColumns \ {"additional_context"} |-> df[k].row[c]]]]

InitContent ==
    /\ ce_pc = "start"
    /\ ce_input \in {"ok", "unreadable"}
    /\ ce_rows \in ContentInputs
    /\ ce_prompts \in ContentPrompts
    /\ ce_df = <<>>
    /\ ce_pos = 0
    /\ ce_fld = 0
    /\ ce_last = ContentNoCall
    /\ ce_out = [k \in DOMAIN ce_rows |-> [idx |-> k - 1, row |-> ce_rows[k]]]
    /\ ce_test = <<>>
    /\ ce_exc = ""
    /\ RunIdle /\ SizeIdle /\ ImageIdle /\ RootIdle /\ EnrichIdle

\* lines 143 and 190-192: the csv cannot be read; the error is logged and raised
ContentReadFails ==
    /\ ce_pc = "start" /\ ce_input = "unreadable"
    /\ ce_pc' = "raised"
    /\ ce_exc' = "Exception"
    /\ UNCHANGED <<ce_input, ce_rows, ce_prompts, ce_df, ce_pos, ce_fld, ce_last, ce_out,
                   ce_test>>
    /\ UNCHANGED not_content_vars

\* lines 143-155: the frame is read, two rows are drawn from a frame of more
\* than two, and the log line of the selected skus joins them, which raises
\* TypeError when one of them is missing
ContentLoad ==
    /\ ce_pc = "start" /\ ce_input = "ok"
    /\ \E sel \in IF Len(ce_rows) > test_limit
                  THEN {<<a, b>> : a \in DOMAIN ce_rows, b \in DOMAIN ce_rows} \ {<<a, a>> : a \in DOMAIN ce_rows}
                  ELSE {[k \in DOMAIN ce_rows |-> k]} :
          LET df == [k \in DOMAIN sel |-> [idx |-> sel[k] - 1, row |-> ce_rows[sel[k]]]]
          IN  IF \E k \in DOMAIN df : df[k].row["sku"] = NA
              THEN /\ ce_pc' = "raised" /\ ce_exc' = "TypeError"
                   /\ UNCHANGED <<ce_df, ce_pos, ce_fld>>
              ELSE /\ ce_pc' = "rows" /\ ce_df' = df /\ ce_pos' = 1 /\ ce_fld' = 1
                   /\ UNCHANGED ce_exc
    /\ UNCHANGED <<ce_input, ce_rows, ce_prompts, ce_last, ce_out, ce_test>>
    /\ UNCHANGED not_content_vars

\* lines 161-175: one field of one row; after the last field of the row comes
\* the periodic save of the frame to config.output_file
ContentField ==
    /\ ce_pc = "rows" /\ ce_pos <= Len(ce_df)
    /\ LET field == content_fields_to_enrich[ce_fld]
           row == ce_df[ce_pos].row
           current_value == Str(row[field])
           wanted == current_value = <<>> \/ StrLower(current_value) = s_nan
       IN  \E reply \in IF wanted /\ ContentCalls(field, row, ce_prompts)
                        THEN ContentReplies(field) ELSE {ContentFailure} :
              LET content == generate_content(field, row, ce_prompts, reply)
                  df == IF wanted /\ ~content.none /\ content.text # <<>>
                        THEN [ce_df EXCEPT ![ce_pos].row[field] = content.text]
                        ELSE ce_df
              IN  /\ ce_df' = df
                  /\ ce_last' = IF wanted /\ ContentCalls(field, row, ce_prompts)
                                THEN [called |-> TRUE, field |-> field, reply |-> reply,
                                      before |-> row[field], after |-> df[ce_pos].row[field]]
                                ELSE ce_last
                  /\ IF ce_fld < Len(content_fields_to_enrich)
                     THEN ce_fld' = ce_fld + 1 /\ UNCHANGED <<ce_pos, ce_out>>
                     ELSE /\ ce_fld' = 1 /\ ce_pos' = ce_pos + 1
                          /\ ce_out' = IF (ce_df[ce_pos].idx + 1) % ContentCheckpointEvery = 0
                                       THEN df ELSE ce_out
    /\ UNCHANGED <<ce_pc, ce_input, ce_rows, ce_prompts, ce_test, ce_exc>>
    /\ UNCHANGED not_content_vars

\* lines 177-188: the final save, to the _test.csv file when a limit is given
ContentFinish ==
    /\ ce_pc = "rows" /\ ce_pos > Len(ce_df)
    /\ \E limit \in ContentLimits :
          IF ~limit.none /\ limit.n > 0
          THEN ce_test' = ContentDropContext(ce_df) /\ UNCHANGED ce_out
          ELSE ce_out' = ContentDropContext(ce_df) /\ UNCHANGED ce_test
    /\ ce_pc' = "done"
    /\ UNCHANGED <<ce_input, ce_rows, ce_prompts, ce_df, ce_pos, ce_fld, ce_last, ce_exc>>
    /\ UNCHANGED not_content_vars

NextContent ==
    \/ ContentReadFails
    \/ ContentLoad
    \/ ContentField
    \/ ContentFinish

SpecContent == InitContent /\ [][NextContent]_vars

(***************************************************************************)
(* Properties of process_size, under SpecSize                              *)
(***************************************************************************)
Returned == sz_pc = "ret"
GivenSize == StrUpper(StrStrip(sz_raw))

\* the size sets of the supplier's configuration that list the value
ConfiguredUnder(v, supplier, cfg) ==
    LET sets == Get(cfg.size_sets, StrLower(supplier), <<>>)
    IN  {sets[k].name : k \in {j \in DOMAIN sets :
                                 \E lit \in sets[j].sizes : StrUpper(lit) = v}}
NoOverride == ConfiguredUnder(GivenSize, sz_supplier, sz_config) = {}

\* C1: a size that is a configured literal of the supplier is returned with the
\* size set it is configured under and that set's size type, whatever else
\* (the espa pre-pass, the numeric range check, a pattern family) matches it
C1_ConfiguredLiteralWins ==
    (Returned /\ sz_kind = "str" /\ sz_raw # <<>> /\ ~NoOverride)
        => /\ sz_result.exc = ""
           /\ sz_result.size = GivenSize
           /\ sz_result.size_set \in ConfiguredUnder(GivenSize, sz_supplier, sz_config)
           /\ sz_result.size_type =
                  Get(sz_config.size_type_mapping, sz_result.size_set, "clothing")

\* C8: an absent or empty size gives the empty triple, for every supplier
C8_EmptySizeEmptyTriple ==
    (Returned /\ (sz_kind \in {"absent", "none", "nan"} \/ sz_raw = <<>>))
        => sz_result = [exc |-> "", size |-> <<>>, size_set |-> "", size_type |-> ""]
C8_Witness ==
    /\ Returned /\ sz_kind = "str" /\ sz_raw = <<>>
    /\ sz_supplier = s_espa /\ sz_config.size_sets # <<>>
    /\ sz_result.size = <<>> /\ sz_result.size_set = ""

IsTwoDigits(a, b) == a \in Digits /\ b \in Digits
IsShoeRange(v) ==
    /\ Len(v) = 5 /\ v[3] \in {"-", "/"}
    /\ IsTwoDigits(v[1], v[2]) /\ IsTwoDigits(v[4], v[5])
    /\ StrInt(<<v[1], v[2]>>) \in 35..46
    /\ StrInt(<<v[4], v[5]>>) \in 35..46

\* C9: two two-digit numbers in 35..46 joined by - or / are a shoe size, for a
\* supplier that does not configure the value as a literal
C9_ShoeRange ==
    (Returned /\ sz_kind = "str" /\ IsShoeRange(GivenSize) /\ NoOverride)
        => /\ sz_result.exc = ""
           /\ sz_result.size = GivenSize
           /\ sz_result.size_set = "calzature"
           /\ sz_result.size_type = "shoes"
C9_Witness ==
    /\ Returned /\ sz_raw = <<"4","1","-","4","3">> /\ sz_supplier = s_ESPA
    /\ NoOverride /\ sz_config.size_sets # <<>>
    /\ sz_result.size_set = "calzature" /\ sz_result.size_type = "shoes"

C10Letters == {<<"X","S">>, <<"S">>, <<"M">>, <<"L">>, <<"X","L">>,
               <<"X","X","L">>, <<"2","X","L">>, <<"3","X","L">>}

\* C10: a letter size in any letter case is returned upper-cased as
\* abbigliamento / clothing, for a supplier that does not configure it
C10_LetterSize ==
    (Returned /\ sz_kind = "str" /\ StrUpper(sz_raw) \in C10Letters /\ NoOverride)
        => sz_result = [exc |-> "", size |-> StrUpper(sz_raw),
                        size_set |-> "abbigliamento", size_type |-> "clothing"]
C10_Witness ==
    /\ Returned /\ sz_raw = <<"x","x","l">> /\ sz_supplier = s_widmann
    /\ sz_config.size_sets # <<>> /\ NoOverride
    /\ sz_result.size = <<"X","X","L">> /\ sz_result.size_set = "abbigliamento"

\* C11: a combined centimetre / age size "<n> CM / <a>-<b> YEARS" is a kids
\* size, bambino / kids, for a supplier that does not configure the value
C11_CmAgeSize ==
    (Returned /\ sz_kind = "str" /\ GivenSize \in CmAgeSizes /\ NoOverride)
        => sz_result = [exc |-> "", size |-> GivenSize,
                        size_set |-> "bambino", size_type |-> "kids"]
C11_Witness ==
    /\ Returned /\ sz_raw = StrLower(s_110cm34) /\ sz_supplier = s_guirca
    /\ sz_config.size_sets # <<>> /\ NoOverride
    /\ sz_result.size = s_110cm34 /\ sz_result.size_set = "bambino"

IsNumericSize(v) ==
    \/ Len(v) = 2 /\ IsTwoDigits(v[1], v[2])
    \/ /\ Len(v) = 5 /\ v[3] \in {"-", "/"}
       /\ IsTwoDigits(v[1], v[2]) /\ IsTwoDigits(v[4], v[5])
TwoDigitNumbers(v) ==
    IF Len(v) = 2 THEN {StrInt(v)}
    ELSE {StrInt(<<v[1], v[2]>>), StrInt(<<v[4], v[5]>>)}

\* C22: a numeric size NN, NN-NN or NN/NN of a supplier that does not
\* configure it is a shoe size only if each of its numbers is in 35..46
C22_ShoesOnlyInRange ==
    (Returned /\ sz_kind = "str" /\ IsNumericSize(GivenSize) /\ NoOverride
       /\ sz_result.size_set = "calzature")
        => TwoDigitNumbers(GivenSize) \subseteq 35..46

\* trim, upper-case and removal of parentheses
StripParentheses(s) == SelectSeq(s, LAMBDA c : c \notin {"(", ")"})
NormalizeAll(raw) == StrUpper(StrStrip(StripParentheses(StrStrip(raw))))

\* C23: a value is classified as its normal form is: trimmed, upper-cased and
\* without parentheses, an empty normal form giving the empty triple
C23_ClassifiesNormalForm ==
    (Returned /\ sz_kind = "str")
        => sz_result = process_size("str", NormalizeAll(sz_raw), sz_supplier, sz_config)

\* C24: a two-digit size of espa is decided by the pre-pass, 32..54 as
\* abbigliamento / clothing and 10..16 as bambino / kids, whatever the
\* supplier configures; for another supplier 10..16 is a kids number and
\* 32..54 is the configured literal or else what the pattern families give
C24_EspaTwoDigits ==
    (Returned /\ sz_kind = "str" /\ Len(GivenSize) = 2
       /\ IsTwoDigits(GivenSize[1], GivenSize[2]))
        => LET n == StrInt(GivenSize) IN
           IF StrLower(sz_supplier) = s_espa
           THEN /\ n \in 32..54 => sz_result = Ret(GivenSize, "abbigliamento", "clothing")
                /\ n \in 10..16 => sz_result = Ret(GivenSize, "bambino", "kids")
           ELSE /\ n \in 10..16 => sz_result = Ret(GivenSize, "bambino", "kids")
                /\ (n \in 32..54 /\ NoOverride) => sz_result = Ret(GivenSize, "bambino", "kids")
                /\ (n \in 32..54 /\ ~NoOverride)
                       => sz_result.size_set \in ConfiguredUnder(GivenSize, sz_supplier, sz_config)
C24_Witness ==
    /\ Returned /\ sz_raw = <<"4","2">> /\ sz_supplier = s_ESPA
    /\ ~NoOverride
    /\ sz_result = Ret(<<"4","2">>, "abbigliamento", "clothing")

MatchesCappelli(v) == \E j \in DOMAIN CappelliPatterns : ReSearch(CappelliPatterns[j], v)
\* the result comes from a category indicator or from the hat heuristic
ViaIndicatorOrHeuristic ==
    \/ /\ CategoryIndicators(GivenSize, sz_config) # NoMatch
       /\ Head(CategoryIndicators(GivenSize, sz_config)).size_set = "cappelli"
    \/ /\ Heuristics(GivenSize) # NoMatch
       /\ Head(Heuristics(GivenSize)).size_set = "cappelli"

\* C28: a value that matches a cappelli pattern is a kids size for every
\* supplier that does not configure it, and cappelli is returned only by the
\* supplier's literals, a category indicator or the hat heuristic
C28_CappelliNeverDecides ==
    (Returned /\ sz_kind = "str" /\ NoOverride)
        => /\ MatchesCappelli(GivenSize) => sz_result = Ret(GivenSize, "bambino", "kids")
           /\ sz_result.size_set = "cappelli" => ViaIndicatorOrHeuristic

\* C28 as it holds: the same, except that espa's 54 is decided by the
\* pre-pass as abbigliamento / clothing
C28_CappelliNeverDecidesButEspa54 ==
    (Returned /\ sz_kind = "str" /\ NoOverride)
        => /\ MatchesCappelli(GivenSize)
                => sz_result = IF StrLower(sz_supplier) = s_espa /\ GivenSize = <<"5","4">>
                               THEN Ret(GivenSize, "abbigliamento", "clothing")
                               ELSE Ret(GivenSize, "bambino", "kids")
           /\ sz_result.size_set = "cappelli" => ViaIndicatorOrHeuristic
C28_Witness ==
    /\ Returned /\ sz_raw = <<"5","8","c","m">> /\ sz_supplier = s_guirca
    /\ NoOverride /\ sz_config.size_sets # <<>>
    /\ sz_result = Ret(<<"5","8","C","M">>, "bambino", "kids")

\* C30: for espa a bare number 2..9 is a kids size, as for any other supplier
C30_EspaBareKidsNumber ==
    (Returned /\ sz_kind = "str" /\ StrLower(sz_supplier) = s_espa
       /\ Len(GivenSize) = 1 /\ GivenSize[1] \in Digits /\ StrInt(GivenSize) \in 2..9)
        => sz_result = Ret(GivenSize, "bambino", "kids")

(***************************************************************************)
(* Properties of a run, under Spec                                         *)
(***************************************************************************)
Done == pc = "done"
WellFormedConfig == "size_type_mapping" \in size_cfg.sections
AcmeFile == File(s_acme, h_acme, <<Row(h_acme, <<v_P001, v_M>>)>>, {})

\* C2: with the mapping column acme (sku <- CODE, size <- TAGLIA), the one-row
\* file CODE=P001, TAGLIA=M of supplier acme gives exactly one output row: sku
\* P001, size M classified abbigliamento / clothing, supplier acme
C2_AcmeRowMapped ==
    (Done /\ load_ok = "ok" /\ WellFormedConfig /\ files = <<AcmeFile>>)
        => /\ written
           /\ Len(output) = 1
           /\ {"sku", "size", "size_set", "size_type", "supplier"}
                  \subseteq DOMAIN output[1]
           /\ output[1]["sku"] = v_P001
           /\ output[1]["size"] = v_M
           /\ output[1]["size_set"] = "abbigliamento"
           /\ output[1]["size_type"] = "clothing"
           /\ output[1]["supplier"] = s_acme

Accumulated == Concat(all_data)
FirstOccurrences(rows) ==
    {i \in DOMAIN rows : \A j \in 1..(i - 1) : rows[j]["sku"] # rows[i]["sku"]}
RankIn(S, i) == Cardinality({j \in S : j <= i})

\* C3: the written rows are the accumulated rows without those whose sku
\* appeared earlier: the first occurrence of each sku is kept, the survivors
\* keep their order, no two share a sku
C3_StableDedup ==
    (Done /\ written)
        => LET kept == FirstOccurrences(Accumulated)
           IN  /\ Len(output) = Cardinality(kept)
               /\ Len(output) = Len(Accumulated) - Cardinality(DOMAIN Accumulated \ kept)
               /\ \A i \in kept : output[RankIn(kept, i)] = Accumulated[i]
               /\ \A a, b \in DOMAIN output : a # b => output[a]["sku"] # output[b]["sku"]
C3_Witness ==
    /\ Done /\ written /\ Len(all_data) = 2
    /\ Len(output) >= 2 /\ Len(output) < Len(Accumulated)
    /\ \E i \in DOMAIN all_data[2] : all_data[2][i]["sku"] = all_data[1][1]["sku"]
    /\ output[1] = all_data[1][1]

SkipStep ==
    /\ pc = "rows" /\ row_idx <= Len(file.rows)
    /\ ResolveSku(file.rows[row_idx], mapping) = <<>>
    /\ row_idx' = row_idx + 1

\* C4: a row without a value in any column mapped to sku is left out of the
\* result, is counted in a skipped-row counter and leaves the rows emitted so
\* far as they are; every emitted row has a non-empty sku
C4_SkippedRowCounted ==
    /\ [][SkipStep => /\ result_data' = result_data
                      /\ \E c \in DOMAIN RowCounts : RowCounts'[c] = RowCounts[c] + 1]_vars
    /\ [](\A i \in DOMAIN result_data :
             "sku" \in DOMAIN result_data[i] /\ result_data[i]["sku"] # <<>>)

\* the rows 1..n of file f that are emitted, each transformed on its own
RECURSIVE SurvivingRows(_, _)
SurvivingRows(f, n) ==
    IF n = 0 THEN <<>>
    ELSE LET e == files[f]
             t == TransformRow(e.headers, e.rows[n], e.supplier,
                               magento_mappings[StrLower(e.supplier)],
                               context_table, size_cfg, n \in e.io_faults)
         IN  SurvivingRows(f, n - 1) \o (IF t.status = "ok" THEN <<t.row>> ELSE <<>>)

\* C5: a row whose processing raises is left out and nothing else changes: the
\* rows emitted for a file are those of its other rows, in order, each as it
\* is transformed on its own
C5_RowFailureIsolated ==
    pc = "rows" => result_data = SurvivingRows(file_idx, row_idx - 1)
C5_Witness ==
    /\ pc = "rows" /\ Len(file.rows) = 3 /\ row_idx = 4
    /\ \E k \in DOMAIN log : log[k].event = "row_error" /\ log[k].row = 2
    /\ Len(result_data) = 2
    /\ result_data[1]["sku"] # result_data[2]["sku"]

\* C6: every row process_catalog returns carries size, size_set and size_type
\* together: none has a non-empty size without a size_set and a size_type
C6_SizeCoDerived ==
    \A f \in DOMAIN all_data : \A i \in DOMAIN all_data[f] :
        LET r == all_data[f][i]
        IN  /\ "size" \in DOMAIN r
            /\ r["size"] # <<>> =>
                  /\ "size_set" \in DOMAIN r /\ r["size_set"] # ""
                  /\ "size_type" \in DOMAIN r /\ r["size_type"] # ""

Processable(e) ==
    /\ e.kind = "file" /\ e.readable
    /\ StrLower(e.supplier) \in DOMAIN magento_mappings
FrameOf(f) ==
    IF Processable(files[f])
    THEN CatalogResult(SurvivingRows(f, Len(files[f].rows)))
    ELSE <<>>
RECURSIVE FramesUpTo(_)
FramesUpTo(n) == IF n = 0 THEN <<>> ELSE FramesUpTo(n - 1) \o FrameOf(n)

RECURSIVE EmittedRows(_, _, _, _)
EmittedRows(f, name, ctx_table, k) ==
    IF k > Len(f.rows) THEN <<>>
    ELSE LET t == TransformRow(f.headers, f.rows[k], name,
                               Get(magento_mappings, StrLower(name), <<>>),
                               ctx_table, size_cfg, k \in f.io_faults)
         IN  (IF t.status = "ok" THEN <<t.row>> ELSE <<>>)
                \o EmittedRows(f, name, ctx_table, k + 1)
\* the rows without the directory name they carry
WithoutSupplier(rows) == [i \in DOMAIN rows |-> [rows[i] EXCEPT !["supplier"] = <<>>]]
FileClosing == pc = "rows" /\ row_idx > Len(file.rows)

\* C17: a spreadsheet read from a directory whose name differs from the
\* supplier key only in letter case or surrounding blanks gives the rows the
\* same spreadsheet gives under the key itself
C17_SupplierKeyNormalised ==
    FileClosing =>
        WithoutSupplier(result_data) =
            WithoutSupplier(EmittedRows(file, StrLower(StrStrip(file.supplier)),
                                        context_table, 1))

\* a context table with one entry for the supplier that names no column:
\* extraction succeeds and finds nothing
EmptyContextOf(supplier) ==
    <<[supplier |-> supplier, supplier_field |-> <<>>, context_type |-> "none"]>>

\* C18: under a directory named exactly as the supplier key, a row is emitted
\* whenever it would be emitted with an empty context, whether the supplier
\* has context entries or not
C18_ContextNeverDrops ==
    (FileClosing /\ file.io_faults = {} /\ file.supplier = StrLower(StrStrip(file.supplier))) =>
        /\ Len(result_data) =
               Len(EmittedRows(file, file.supplier, EmptyContextOf(file.supplier), 1))
        /\ \A i \in DOMAIN result_data :
               context_field_mappings(context_table, file.supplier) = <<>>
                   => result_data[i]["product_context"] = <<>>

\* C19: a finished run in which no file gave a frame wrote nothing and logged
\* a warning
C19_EmptyRunWarns ==
    (Done /\ all_data = <<>>) =>
        /\ ~written /\ output = <<>>
        /\ \E k \in DOMAIN log : log[k].level = "warning"

\* C26: a size configuration that lacks a section is rejected when the
\* processor is constructed, and after construction no row fails with a
\* KeyError over the configuration
C26_ConfigRejectedAtStartup ==
    /\ pc \notin {"init", "failed"} => WellFormedConfig
    /\ (pc = "rows" /\ row_idx <= Len(file.rows)) => Transformed.exc # "KeyError"

\* the first of the columns, in mapping order, that holds a value in the row
FirstValued(cols, row) ==
    LET at == {k \in DOMAIN cols : cols[k] \in DOMAIN row /\ StrStrip(row[cols[k]]) # <<>>}
    IN  IF at = {} THEN <<>> ELSE <<cols[Least(at)]>>

\* C25: the sku and the name of a row are the trimmed value of the first
\* mapped column that holds a value in the row, and a row is skipped for its
\* sku only when none of its sku columns holds a value
C25_FirstPresentWins ==
    (pc = "rows" /\ row_idx <= Len(file.rows) /\ Transformed.status # "error")
        => LET row == file.rows[row_idx]
               sku == FirstValued(MappedColumns(mapping, "sku"), row)
               name == FirstValued(MappedColumns(mapping, "name"), row)
           IN  /\ Transformed.status = "skip" <=> sku = <<>>
               /\ Transformed.status = "ok" =>
                     /\ Transformed.row["sku"] = StrStrip(row[sku[1]])
                     /\ name # <<>> => Transformed.row["name"] = StrStrip(row[name[1]])

(***************************************************************************)
(* Properties of the image filename reductions, under SpecImage            *)
(***************************************************************************)
NoSeparator(s) == \A i \in DOMAIN s : s[i] \notin {"/", "\\"}

\* C12: reducing an image value twice gives what reducing it once gives, for
\* _strip_image_url and for extract_filename, and the reduced filename holds
\* no '/' and no '\'
C12_ReductionIdempotent ==
    im_pc = "twice" => (im_twice = im_once /\ NoSeparator(im_once))

\* C13: extract_filename keeps a name that ends in .jpg; otherwise, when the
\* part before the first '.' is non-empty the result is that part followed by
\* ".jpg", and when it is empty the result is the empty string
C13_ExtensionCoercion ==
    (im_pc = "once" /\ im_fn = "extract_filename" /\ im_kind = "str"
       /\ StrStrip(im_url) # <<>> /\ StrLower(StrStrip(im_url)) # s_nan)
        => LET name == basename(StrStrip(im_url), im_platform)
               base == Head(StrSplit(name, "."))
           IN  IF EndsWith(StrLower(name), s_jpg) THEN im_once = name
               ELSE IF base # <<>> THEN im_once = base \o s_jpg
               ELSE im_once = <<>>

(***************************************************************************)
(* Properties of process_catalog of src/catalog_processor.py, under        *)
(* SpecRoot                                                                *)
(***************************************************************************)
\* a run over one spreadsheet whose frame process_catalog returned
RootOneFrame == Len(rt_entries) = 1 /\ Len(rt_all) = 1
RootIn == rt_entries[1].file
RootOut == rt_all[1]
RootMappingOf(name) == Get(rt_loaded.supplier_mappings, StrLower(StrStrip(name)), EmptyDict)
\* the supplier columns of a field that the spreadsheet has, in mapping order
RootPresentCols(field) ==
    SelectSeq(Get(RootMappingOf(rt_entries[1].name), field, <<>>),
              LAMBDA c : c \in Range(RootIn.headers))
RootCellFilename(cell) ==
    extract_filename(IF cell = NA THEN "nan" ELSE "str", cell, rt_platform)

\* C14: each row's base_image, small_image and thumbnail_image is the reduced
\* filename of that row's own value in the first mapped column the file has
C14_ImageOfOwnRow ==
    RootOneFrame =>
        \A field \in Range(SingleImageFields) \cap Range(rt_loaded.magento_fields) :
            RootPresentCols(field) # <<>> =>
                \A i \in DOMAIN RootOut :
                    RootOut[i][field] = RootCellFilename(RootIn.rows[i][RootPresentCols(field)[1]])

\* the non-empty trimmed values of a row in the given columns, joined by ','
RootJoinOfRow(row, cols) ==
    JoinComma(SelectSeq([k \in DOMAIN cols |->
                            IF row[cols[k]] = NA THEN <<>> ELSE StrStrip(row[cols[k]])],
                        LAMBDA v : v # <<>>))

\* C15: a non-image field with several mapped columns in the file holds, for
\* each row, the ','-join of that row's own non-empty trimmed values
C15_JoinOfOwnRow ==
    RootOneFrame =>
        \A field \in Range(rt_loaded.magento_fields) \ (Range(SingleImageFields) \cup {"additional_images"}) :
            Len(RootPresentCols(field)) > 1 =>
                \A i \in DOMAIN RootOut :
                    RootOut[i][field] = RootJoinOfRow(RootIn.rows[i], RootPresentCols(field))

RootDefaultOf(field) ==
    LET d == Get(rt_loaded.default_values, field, NA) IN IF d = NA THEN <<>> ELSE d

\* C16: every row of a returned frame has a value that is not NaN for every
\* field of the mapping table, and a field without a supplier value in the row
\* has the field's default, the empty string when none is configured
C16_DefaultNeverNaN ==
    RootOneFrame =>
        \A field \in Range(rt_loaded.magento_fields) : \A i \in DOMAIN RootOut :
            /\ RootOut[i][field] # NA
            /\ (\A k \in DOMAIN RootPresentCols(field) :
                    RootIn.rows[i][RootPresentCols(field)[k]] = NA)
                  => RootOut[i][field] = RootDefaultOf(field)

\* C27: a step of the run leaves every entry the descriptive-field cache
\* already holds as it is, never scores a supplier a second time, and leaves
\* the loaded mapping (magento_fields, default_values, supplier_mappings)
\* alone once it is loaded
C27_CacheAndConfigFrozen ==
    [][/\ \A k \in DOMAIN rt_cache : k \in DOMAIN rt_cache' /\ rt_cache'[k] = rt_cache[k]
       /\ \A k \in DOMAIN rt_scored' : rt_scored'[k] <= 1
       /\ rt_pc \notin {"idle", "start"} => rt_loaded' = rt_loaded]_vars
\* two spreadsheets of the same supplier went through process_catalog, the
\* first with a descriptive NOTE column, the second without rows
C27_Witness ==
    /\ rt_pc = "loop" /\ rt_idx = 3
    /\ \A i \in 1..2 : /\ rt_entries[i].kind = "dir" /\ rt_entries[i].file.readable
                       /\ StrLower(StrStrip(rt_entries[i].name)) = s_guirca
    /\ rt_entries[2].file.rows = <<>>
    /\ s_guirca \in DOMAIN rt_cache
    /\ rt_cache[s_guirca] = [c \in {c_NOTE} |-> TRUE]
    /\ get_descriptive_fields(rt_entries[2].file, MappedColumnSet(RootMappingOf(s_guirca)))
           = [c \in {c_NOTE} |-> FALSE]
    /\ rt_scored[s_guirca] = 1

(***************************************************************************)
(* Properties of enrich_products, under SpecEnrich                         *)
(***************************************************************************)
\* the output file holds the result of the j-th visited row
EnrichResultOnDisk(j) ==
    /\ en_saved
    /\ \E r \in DOMAIN en_file :
          en_file[r].index = en_df[j].index /\ en_file[r].set = en_df[j].set

\* C20: after k rows were visited the output file holds the results of the
\* first 10 * floor(k / 10) of them
C20_CheckpointEveryTen ==
    en_pc \in {"loop", "returned"} =>
        \A j \in 1..(CheckpointEvery * (en_pos \div CheckpointEvery)) :
            EnrichResultOnDisk(j)

\* C29: a name, description, url_key or short_description that the input
\* already fills in still holds the input text after the row was visited
C29_OnlyFillsMissing ==
    \A i \in DOMAIN en_df : \A field \in en_had :
        EnrichValue(en_df[i], en_had, field) = "input"

(***************************************************************************)
(* Properties of process_database, under SpecContent                       *)
(***************************************************************************)
\* C21: after a generator call that failed or returned empty text the cell
\* is as it was, and after any other call the cell is either as it was or
\* the text the generator returned (in the url_key form for url_key)
C21_NeverFabricates ==
    ce_last.called =>
        LET returned == IF ce_last.reply.ok THEN StrStrip(ce_last.reply.text) ELSE <<>>
        IN  IF returned = <<>>
            THEN ce_last.after = ce_last.before
            ELSE ce_last.after \in
                    {ce_last.before, returned}
                        \cup (IF ce_last.field = "url_key"
                              THEN {StrReplace(StrLower(returned), " ", "-")} ELSE {})
====
